---------------------------- MODULE Spec2Model ----------------------------
(***************************************************************************)
(* A model of the survey-analytics desktop application: the preprocessing *)
(* pipeline (src/src/assets/preprocess.py), the chart layer               *)
(* (src/src/visualization/charts), the user store                         *)
(* (src/FinalProject/assets/users_db.py) and the login window             *)
(* (src/FinalProject/windows/main_window.py).                             *)
(*                                                                         *)
(* The module holds one group of variables per component and one          *)
(* specification per component; a specification keeps the variables of    *)
(* the other components at their idle values.                             *)
(***************************************************************************)
EXTENDS Integers, Sequences, FiniteSets, TLC

VARIABLES
    \* remove_outliers(df, outlier_thresholds)
    ro_df,              \* the dataframe passed in
    ro_thresholds,      \* the outlier_thresholds argument
    ro_out,             \* the dataframe returned
    ro_pc,              \* "call" before the call, "done" after it
    \* calculate_entropy(series)
    en_series,          \* the argument
    en_result,          \* the value returned, in thousandths of a bit
    en_pc,              \* "call" before the call, "done" after it
    \* a direct call of one chart function
    ch_df,              \* the dataframe passed in
    ch_call,            \* the function called and its arguments
    ch_result,          \* "Figure" or "None"
    ch_pc,              \* "call" before the call, "done" after it
    \* visualize_survey_responses(...)
    vs_csv,             \* cleaned_data.csv as load_data finds it
    vs_args,            \* the arguments of the call
    vs_calls,           \* the chart functions the call invoked, in order
    vs_result,          \* "Figure" or "None"
    vs_pc,              \* "call" before the call, "done" after it
    \* the user store and the login window
    us_file,            \* users_db.json: absent, readable or unreadable
    us_add,             \* the last add_user_to_db call and what it raised
    us_login,           \* the last login attempt and whether it opened
    us_feedback,        \* the text of the login window's feedback label
    us_dashboard,       \* TRUE once the dashboard window is shown
    us_main_open,       \* TRUE while the login window is open
    us_load,            \* the last direct call of load_users_db and its outcome
    us_writes,          \* the number of times users_db.json has been written
    \* preprocess.main(), run after run
    pl_input,           \* what read_xls_from_folder returned in the last run
    pl_cleaned,         \* cleaned_data.csv
    pl_processed,       \* processed_data.csv
    pl_runs,            \* the number of runs of main() so far
    \* components whose state is one record each
    rg,                 \* the registration window
    uz,                 \* a call of unzip_file and the files it works on
    gw,                 \* a GraphWidget
    uv,                 \* a call of UsernameValidator.validate_username
    dw,                 \* the dashboard of src/src/windows
    fd,                 \* the dashboard of src/FinalProject/windows
    pp,                 \* run_preprocessing and the tables of the dashboard
    zs,                 \* the axis limits of a GraphWidget under scrolling
    an,                 \* the annotations of a GraphWidget
    dl,                 \* one execution of the download script
    vt                  \* a validator's labels and its inactivity timer

ro_vars == <<ro_df, ro_thresholds, ro_out, ro_pc>>
en_vars == <<en_series, en_result, en_pc>>
ch_vars == <<ch_df, ch_call, ch_result, ch_pc>>
vs_vars == <<vs_csv, vs_args, vs_calls, vs_result, vs_pc>>

us_vars == <<us_file, us_add, us_login, us_feedback, us_dashboard, us_main_open,
             us_load, us_writes>>
pl_vars == <<pl_input, pl_cleaned, pl_processed, pl_runs>>

vars == <<ro_vars, en_vars, ch_vars, vs_vars, us_vars, pl_vars,
          rg, uz, gw, uv, dw, fd,
            pp, zs, an, dl, vt>>

\* what a step of one component leaves alone: the other components
not_ro == <<en_vars, ch_vars, vs_vars, us_vars, pl_vars,
            rg, uz, gw, uv, dw, fd,
            pp, zs, an, dl, vt>>
not_en == <<ro_vars, ch_vars, vs_vars, us_vars, pl_vars,
            rg, uz, gw, uv, dw, fd,
            pp, zs, an, dl, vt>>
not_ch == <<ro_vars, en_vars, vs_vars, us_vars, pl_vars,
            rg, uz, gw, uv, dw, fd,
            pp, zs, an, dl, vt>>
not_vs == <<ro_vars, en_vars, ch_vars, us_vars, pl_vars,
            rg, uz, gw, uv, dw, fd,
            pp, zs, an, dl, vt>>
not_us == <<ro_vars, en_vars, ch_vars, vs_vars, pl_vars,
            rg, uz, gw, uv, dw, fd,
            pp, zs, an, dl, vt>>
not_pl == <<ro_vars, en_vars, ch_vars, vs_vars, us_vars,
            rg, uz, gw, uv, dw, fd,
            pp, zs, an, dl, vt>>
not_rg == <<ro_vars, en_vars, ch_vars, vs_vars, us_vars, pl_vars,
            uz, gw, uv, dw, fd,
            pp, zs, an, dl, vt>>
not_uz == <<ro_vars, en_vars, ch_vars, vs_vars, us_vars, pl_vars,
            rg, gw, uv, dw, fd,
            pp, zs, an, dl, vt>>
not_gw == <<ro_vars, en_vars, ch_vars, vs_vars, us_vars, pl_vars,
            rg, uz, uv, dw, fd,
            pp, zs, an, dl, vt>>
not_uv == <<ro_vars, en_vars, ch_vars, vs_vars, us_vars, pl_vars,
            rg, uz, gw, dw, fd,
            pp, zs, an, dl, vt>>
not_dw == <<ro_vars, en_vars, ch_vars, vs_vars, us_vars, pl_vars,
            rg, uz, gw, uv, fd,
            pp, zs, an, dl, vt>>
not_fd == <<ro_vars, en_vars, ch_vars, vs_vars, us_vars, pl_vars,
            rg, uz, gw, uv, dw,
            pp, zs, an, dl, vt>>
not_us_rg == <<ro_vars, en_vars, ch_vars, vs_vars, pl_vars,
               uz, gw, uv, dw, fd,
            pp, zs, an, dl, vt>>
not_pp == <<ro_vars, en_vars, ch_vars, vs_vars, us_vars, pl_vars,
            rg, uz, gw, uv, dw, fd,
            zs, an, dl, vt>>
not_zs == <<ro_vars, en_vars, ch_vars, vs_vars, us_vars, pl_vars,
            rg, uz, gw, uv, dw, fd,
            pp, an, dl, vt>>
not_an == <<ro_vars, en_vars, ch_vars, vs_vars, us_vars, pl_vars,
            rg, uz, gw, uv, dw, fd,
            pp, zs, dl, vt>>
not_dl == <<ro_vars, en_vars, ch_vars, vs_vars, us_vars, pl_vars,
            rg, uz, gw, uv, dw, fd,
            pp, zs, an, vt>>
not_vt == <<ro_vars, en_vars, ch_vars, vs_vars, us_vars, pl_vars,
            rg, uz, gw, uv, dw, fd,
            pp, zs, an, dl>>

---------------------------------------------------------------------------
(* Dataframes.  A dataframe is a sequence of rows; a row carries its index *)
(* label (pandas keeps the label of a row through boolean filtering) and   *)
(* one value per column.  df[mask] is SelectSeq: the rows for which the    *)
(* mask holds, in order, labels kept.                                      *)

\* numpy's nan: the missing value of a numeric column.  Every comparison
\* with it is false.
NaN == -1000

\* None in an object (string) column.
NoneStr == "<None>"

IsNaN(v) == v = NaN

\* v >= b and v <= b as pandas evaluates them on a float/int column
Ge(v, b) == ~IsNaN(v) /\ v >= b
Le(v, b) == ~IsNaN(v) /\ v <= b
Lt(v, b) == ~IsNaN(v) /\ v < b
Gt(v, b) == ~IsNaN(v) /\ v > b

\* df.select_dtypes(include=[np.number]).columns, in column order
num_cols == <<"numeric_col", "Q3_SCHOOL">>

NumColSet == {num_cols[i] : i \in 1..Len(num_cols)}

---------------------------------------------------------------------------
(* remove_outliers                                                         *)

\* the ceiling of a column that has no entry in the thresholds
DefaultUpperBound == 5

\* the ceiling of Q3_SCHOOL
SchoolUpperBound == 8

\* dict.update(other)
DictUpdate(d, other) ==
    [k \in (DOMAIN d) \cup (DOMAIN other) |->
        IF k \in DOMAIN other THEN other[k] ELSE d[k]]

\* dict.get(key, default)
DictGet(d, k, default) == IF k \in DOMAIN d THEN d[k] ELSE default

EmptyDict == [k \in {} |-> 0]

AllFiveThresholds ==
    [col \in NumColSet \cup {"Q3_SCHOOL"} |-> DefaultUpperBound]

\* default_thresholds = {col: 5 for col in num_cols.columns};
\* default_thresholds["Q3_SCHOOL"] = 8
default_thresholds ==
    [col \in NumColSet \cup {"Q3_SCHOOL"} |->
        IF col = "Q3_SCHOOL" THEN SchoolUpperBound ELSE DefaultUpperBound]

\* the combined thresholds: the defaults updated with the custom ones
CombinedThresholds(custom) ==
    IF custom.is_none THEN default_thresholds
    ELSE DictUpdate(default_thresholds, custom.dict)

\* one turn of the loop: df = df[(df[col] >= 0) & (df[col] <= upper_bound)]
FilterColumn(df, col, upper_bound) ==
    LET Keep(r) == Ge(r[col], 0) /\ Le(r[col], upper_bound)
    IN  SelectSeq(df, Keep)

\* the rows the warning of the loop lists: (df[col] < 0) | (df[col] > upper_bound)
OutlierRows(df, col, upper_bound) ==
    LET Out(r) == Lt(r[col], 0) \/ Gt(r[col], upper_bound)
    IN  SelectSeq(df, Out)

RECURSIVE FilterColumns(_, _, _)
\* for col in num_cols.columns: ...
FilterColumns(df, cols, thresholds) ==
    IF cols = << >> THEN df
    ELSE FilterColumns(
            FilterColumn(df, Head(cols),
                         DictGet(thresholds, Head(cols), DefaultUpperBound)),
            Tail(cols), thresholds)

remove_outliers(df, custom) ==
    FilterColumns(df, num_cols, CombinedThresholds(custom))

---------------------------------------------------------------------------
(* Inputs of remove_outliers                                               *)

\* the longest dataframe passed to remove_outliers
MaxRows == 2

NumVals == {-1, 5, 6, 9, NaN}
StrVals == {"a", "b"}

RowValues == [numeric_col : NumVals, Q3_SCHOOL : NumVals, string_col : StrVals]

\* a fresh dataframe: row i carries the label i
WithIndex(rows) ==
    [i \in 1..Len(rows) |->
        [idx |-> i, numeric_col |-> rows[i].numeric_col,
         Q3_SCHOOL |-> rows[i].Q3_SCHOOL, string_col |-> rows[i].string_col]]

RECURSIVE SeqsUpTo(_, _)
SeqsUpTo(S, n) ==
    IF n = 0 THEN {<< >>}
    ELSE LET shorter == SeqsUpTo(S, n - 1)
         IN  shorter \cup {Append(s, x) : s \in {t \in shorter : Len(t) = n - 1}, x \in S}

Frames == {WithIndex(rows) : rows \in SeqsUpTo(RowValues, MaxRows)}

CustomValues == {5, 7}

PartialMaps(K, V) == UNION {[D -> V] : D \in SUBSET K}

ThresholdArgs ==
    {[is_none |-> TRUE, dict |-> EmptyDict]}
        \cup {[is_none |-> FALSE, dict |-> d] : d \in PartialMaps(NumColSet, CustomValues)}

RoInit ==
    /\ ro_df \in Frames
    /\ ro_thresholds = [is_none |-> TRUE, dict |-> EmptyDict]
    /\ ro_out = << >>
    /\ ro_pc = "call"

RoIdle ==
    /\ ro_df = << >>
    /\ ro_thresholds = [is_none |-> TRUE, dict |-> EmptyDict]
    /\ ro_out = << >>
    /\ ro_pc = "idle"

\* a call remove_outliers(df, outlier_thresholds)
RemoveOutliers ==
    /\ ro_pc = "call"
    /\ \E custom \in ThresholdArgs :
          /\ ro_thresholds' = custom
          /\ ro_out' = remove_outliers(ro_df, custom)
    /\ ro_pc' = "done"
    /\ UNCHANGED <<ro_df, not_ro>>


---------------------------------------------------------------------------
(* Claims about remove_outliers                                            *)

\* the ceiling the specification gives a column: the custom threshold when
\* one is given for that column, else 8 for Q3_SCHOOL and 5 for the rest
StatedBound(custom, col) ==
    IF ~custom.is_none /\ col \in DOMAIN custom.dict THEN custom.dict[col]
    ELSE IF col = "Q3_SCHOOL" THEN 8 ELSE 5

\* a value below 0 or above the ceiling (a missing value is neither)
IsOutlierValue(v, bound) == Lt(v, 0) \/ Gt(v, bound)

HasOutlier(r, custom) ==
    \E col \in NumColSet : IsOutlierValue(r[col], StatedBound(custom, col))

WithinAll(r, custom) ==
    \A col \in NumColSet :
        Ge(r[col], 0) /\ Le(r[col], StatedBound(custom, col))

RowsOf(df) == {df[i] : i \in 1..Len(df)}

\* C1 (as stated): remove_outliers removes a row if and only if one of its
\* numeric values is below 0 or above the column's upper bound; every other
\* row is kept, in order and with all of its columns unchanged.
C1_RemovedIffOutlier ==
    ro_pc = "done" =>
        LET Kept(r) == ~HasOutlier(r, ro_thresholds)
        IN  ro_out = SelectSeq(ro_df, Kept)

\* C8: the upper bound is 5 for every numeric column and 8 for Q3_SCHOOL; a
\* custom threshold replaces the bound of its own column only.  The rows
\* returned are exactly the rows whose numeric values all lie between 0 and
\* these bounds.
C8_BoundsPerColumn ==
    ro_pc = "done" =>
        LET Kept(r) == WithinAll(r, ro_thresholds)
        IN  ro_out = SelectSeq(ro_df, Kept)

\* a call with a custom threshold for numeric_col only: a row with 6 in both
\* columns is kept (7 for numeric_col, still 8 for Q3_SCHOOL) and a row with
\* 9 in Q3_SCHOOL is removed
C8_Witness ==
    /\ ro_pc = "done"
    /\ ~ro_thresholds.is_none
    /\ DOMAIN ro_thresholds.dict = {"numeric_col"}
    /\ ro_thresholds.dict["numeric_col"] = 7
    /\ \E r \in RowsOf(ro_out) : r.numeric_col = 6 /\ r.Q3_SCHOOL = 6
    /\ \E r \in RowsOf(ro_df) : r.Q3_SCHOOL = 9 /\ r.numeric_col = 5

---------------------------------------------------------------------------
(* calculate_entropy                                                       *)

\* np.log2 of a whole number, in thousandths of a bit
Log2Milli(n) ==
    CASE n = 1 -> 0      [] n = 2 -> 1000   [] n = 3 -> 1585
      [] n = 4 -> 2000   [] n = 5 -> 2322   [] n = 6 -> 2585
      [] n = 7 -> 2807   [] n = 8 -> 3000   [] n = 9 -> 3170
      [] n = 10 -> 3322  [] n = 11 -> 3459  [] n = 12 -> 3585

\* np.log2 of the probability count/total
Log2MilliOfRatio(count, total) == Log2Milli(count) - Log2Milli(total)

RECURSIVE SumOver(_, _)
\* the sum of f[x] over the x in S
SumOver(S, f) ==
    IF S = {} THEN 0
    ELSE LET x == CHOOSE y \in S : TRUE
         IN  f[x] + SumOver(S \ {x}, f)

CountOf(values, v) == Cardinality({i \in 1..Len(values) : values[i] = v})

\* the counts of series.value_counts(): every value of the series, the
\* missing value included
value_counts_keepna(values) ==
    [v \in {values[i] : i \in 1..Len(values)} |-> CountOf(values, v)]

\* the counts behind series.dropna().value_counts(normalize=True): one entry
\* per value that occurs; the probability of v is counts[v] / total
value_counts(values) ==
    [v \in {values[i] : i \in 1..Len(values)} \ {NaN} |-> CountOf(values, v)]

calculate_entropy(series) ==
    IF ~series.is_series THEN NaN
    ELSE LET counts == value_counts(series.values)
             total == SumOver(DOMAIN counts, counts)
             \* probabilities = value_counts[value_counts > 0]
             probabilities == {v \in DOMAIN counts : counts[v] > 0}
             \* total * sum(p * log2(p))
             weighted == SumOver(probabilities,
                            [v \in probabilities |->
                                counts[v] * Log2MilliOfRatio(counts[v], total)])
         IN  IF DOMAIN counts = {} THEN 0
             ELSE (0 - weighted) \div total

\* the longest series passed to calculate_entropy
MaxSeriesLen == 7

Categories == 1..4

SeriesArgs ==
    {[is_series |-> TRUE, values |-> s] : s \in SeqsUpTo(Categories \cup {NaN}, MaxSeriesLen)}
        \cup {[is_series |-> FALSE, values |-> << >>]}

EnInit ==
    /\ en_series \in SeriesArgs
    /\ en_result = 0
    /\ en_pc = "call"

EnIdle ==
    /\ en_series = [is_series |-> TRUE, values |-> << >>]
    /\ en_result = 0
    /\ en_pc = "idle"

\* a call calculate_entropy(series)
CalculateEntropy ==
    /\ en_pc = "call"
    /\ en_result' = calculate_entropy(en_series)
    /\ en_pc' = "done"
    /\ UNCHANGED <<en_series, not_en>>

---------------------------------------------------------------------------
(* Claims about calculate_entropy                                          *)

PresentValues(values) == {values[i] : i \in 1..Len(values)} \ {NaN}

EvenlySpread(values) ==
    \A v, w \in PresentValues(values) : CountOf(values, v) = CountOf(values, w)

\* C2: calculate_entropy returns 0 for a column whose values all fall in one
\* category and 2 bits for a column spread evenly over exactly four
\* categories.
C2_EntropyZeroAndTwoBits ==
    (en_pc = "done" /\ en_series.is_series) =>
        /\ Cardinality(PresentValues(en_series.values)) = 1 => en_result = 0
        /\ (Cardinality(PresentValues(en_series.values)) = 4
                /\ EvenlySpread(en_series.values)) => en_result = 2000

\* a column with a missing value and four categories, one answer each
C2_Witness ==
    /\ en_pc = "done"
    /\ en_series.is_series
    /\ Len(en_series.values) = 5
    /\ Cardinality(PresentValues(en_series.values)) = 4
    /\ en_result = 2000


---------------------------------------------------------------------------
(* The chart functions.  A survey dataframe has a set of columns and a     *)
(* sequence of rows; a chart function returns a figure or None.            *)

\* data_dictionary.answers
answers == <<"Very disagree", "Disagree", "Normal", "Agree", "Very agree">>

\* data_dictionary.gender
gender == (0 :> "Female") @@ (1 :> "Male")

\* data_dictionary.school
school ==
    <<"Can Tho FPT University", "Can Tho University",
      "Can Tho Medicine and Pharmacy University", "Nam Can Tho University",
      "Can Tho College", "College of Medicine",
      "Can Tho FPT Polytechnic College", "Others">>

\* data_dictionary.income
income ==
    <<"Under 3 million", "From 3 - 5 million", "From 5 - 10 million",
      "Over 10 million">>

\* dict.values()
DictValues(d) == {d[k] : k \in DOMAIN d}

\* Series.map(dict): a code without an entry becomes a missing value
MapCode(v, d) == IF v \in DOMAIN d THEN d[v] ELSE NoneStr

\* DEFAULT_CATEGORY_ORDER
DEFAULT_CATEGORY_ORDER == answers

Figure == "Figure"
None == "None"

\* df.empty: no rows or no columns
IsEmptyFrame(df) == df.rows = << >> \/ df.cols = {}

\* the indices of the rows of df
RowIds(df) == 1..Len(df.rows)

create_bar_chart_general(df, selected_question) ==
    IF IsEmptyFrame(df) THEN None
    ELSE IF selected_question \notin df.cols THEN None
    ELSE LET mapped == [i \in RowIds(df) |-> MapCode(df.rows[i][selected_question], answers)]
             \* value_counts().reindex(category_order, fill_value=0)
             response_counts ==
                [c \in DictValues(DEFAULT_CATEGORY_ORDER) |->
                    Cardinality({i \in RowIds(df) : mapped[i] = c})]
         IN  IF SumOver(DOMAIN response_counts, response_counts) = 0 THEN None
             ELSE Figure

\* the three bar charts with a distinction share their code but for the
\* demographic column and its dictionary
BarChartBy(df, selected_question, column, labels) ==
    IF IsEmptyFrame(df) THEN None
    ELSE IF selected_question \notin df.cols THEN None
    ELSE IF column \notin df.cols THEN None
    ELSE LET groups == {MapCode(df.rows[i][column], labels) : i \in RowIds(df)} \ {NoneStr}
             \* groupby([column, question], observed=False).size(): one row per
             \* observed group and per answer category, counted or not
             count_data == groups \X DictValues(DEFAULT_CATEGORY_ORDER)
         IN  IF count_data = {} THEN None ELSE Figure

create_bar_chart_by_gender(df, selected_question) ==
    BarChartBy(df, selected_question, "Q2_GENDER", gender)

create_bar_chart_by_school(df, selected_question) ==
    BarChartBy(df, selected_question, "Q3_SCHOOL", school)

create_bar_chart_by_income(df, selected_question) ==
    BarChartBy(df, selected_question, "Q4_INCOME", income)

create_pie_chart_general(df, selected_question) ==
    IF IsEmptyFrame(df) THEN None
    ELSE IF selected_question \notin df.cols THEN None
    ELSE LET mapped == [i \in RowIds(df) |-> MapCode(df.rows[i][selected_question], answers)]
             \* value_counts(): the answers that occur, missing ones dropped
             answer_counts == {mapped[i] : i \in RowIds(df)} \ {NoneStr}
         IN  IF answer_counts = {} THEN None ELSE Figure

\* "if gender_filter:" a filter that is None or empty is no filter
IsSet(filter) == filter \notin {NoneStr, ""}

\* the filtered pie chart without the step that applies the filter
PieChartByUnfiltered(df, selected_question, filter, column, labels, valid) ==
    IF IsEmptyFrame(df) THEN None
    ELSE IF selected_question \notin df.cols THEN None
    ELSE IF column \notin df.cols THEN None
    ELSE IF IsSet(filter) /\ filter \notin valid THEN None
    ELSE LET grouped_data ==
                {i \in RowIds(df) :
                    /\ MapCode(df.rows[i][column], labels) # NoneStr
                    /\ MapCode(df.rows[i][selected_question], answers) # NoneStr}
         IN  IF grouped_data = {} THEN None ELSE Figure

\* the three pie charts with a filter share their code but for the
\* demographic column, its dictionary and the valid filter values
PieChartBy(df, selected_question, filter, column, labels, valid) ==
    IF IsEmptyFrame(df) THEN None
    ELSE IF selected_question \notin df.cols THEN None
    ELSE IF column \notin df.cols THEN None
    ELSE IF IsSet(filter) /\ filter \notin valid THEN None
    ELSE LET processed ==
                {i \in RowIds(df) :
                    IsSet(filter) => MapCode(df.rows[i][column], labels) = filter}
             \* groupby([column, question]).size().unstack(): rows with a
             \* missing group or a missing answer are dropped
             grouped_data ==
                {i \in processed :
                    /\ MapCode(df.rows[i][column], labels) # NoneStr
                    /\ MapCode(df.rows[i][selected_question], answers) # NoneStr}
         IN  IF grouped_data = {} THEN None ELSE Figure

create_pie_chart_by_gender(df, selected_question, gender_filter) ==
    PieChartBy(df, selected_question, gender_filter, "Q2_GENDER", gender,
               {"Male", "Female"})

create_pie_chart_by_school(df, selected_question, school_filter) ==
    PieChartBy(df, selected_question, school_filter, "Q3_SCHOOL", school,
               DictValues(school))

create_pie_chart_by_income(df, selected_question, income_filter) ==
    PieChartBy(df, selected_question, income_filter, "Q4_INCOME", income,
               DictValues(income))

---------------------------------------------------------------------------
(* Inputs of the chart functions                                           *)

\* the longest survey dataframe passed to a chart function
MaxChartRows == 2

AllColumns == {"SC1", "Q2_GENDER", "Q3_SCHOOL", "Q4_INCOME"}

\* the column sets of the dataframes: every column, or one column missing
ColumnSets == {AllColumns} \cup {AllColumns \ {c} : c \in AllColumns}

\* codes with and without an entry in the dictionaries
SurveyRows ==
    [SC1 : {1, 9}, Q2_GENDER : {0, 1, 7}, Q3_SCHOOL : {1, 9}, Q4_INCOME : {1, 9}]

\* a row of a dataframe that has the columns cols only
Project(r, cols) ==
    [c \in AllColumns |-> IF c \in cols THEN r[c] ELSE NaN]

SurveyFrames ==
    {[cols |-> cols, rows |-> [i \in 1..Len(rows) |-> Project(rows[i], cols)]] :
        cols \in ColumnSets, rows \in SeqsUpTo(SurveyRows, MaxChartRows)}

Questions == {"SC1", "TR1"}

GenderFilters == {NoneStr, "Male", "Invalid"}
SchoolFilters == {NoneStr, school[1], "Invalid"}
IncomeFilters == {NoneStr, income[1], "Invalid"}

NoCall == [fn |-> "none", question |-> "", filter |-> NoneStr]

ChInit ==
    /\ ch_df \in SurveyFrames
    /\ ch_call = NoCall
    /\ ch_result = None
    /\ ch_pc = "call"

ChIdle ==
    /\ ch_df = [cols |-> {}, rows |-> << >>]
    /\ ch_call = NoCall
    /\ ch_result = None
    /\ ch_pc = "idle"

\* the call fn(df, question[, filter]) returns result
Returns(fn, question, filter, result) ==
    /\ ch_pc = "call"
    /\ ch_call' = [fn |-> fn, question |-> question, filter |-> filter]
    /\ ch_result' = result
    /\ ch_pc' = "done"
    /\ UNCHANGED <<ch_df, not_ch>>

BarChartGeneral ==
    \E q \in Questions :
        Returns("create_bar_chart_general", q, NoneStr, create_bar_chart_general(ch_df, q))

BarChartByGender ==
    \E q \in Questions :
        Returns("create_bar_chart_by_gender", q, NoneStr, create_bar_chart_by_gender(ch_df, q))

BarChartBySchool ==
    \E q \in Questions :
        Returns("create_bar_chart_by_school", q, NoneStr, create_bar_chart_by_school(ch_df, q))

BarChartByIncome ==
    \E q \in Questions :
        Returns("create_bar_chart_by_income", q, NoneStr, create_bar_chart_by_income(ch_df, q))

PieChartGeneral ==
    \E q \in Questions :
        Returns("create_pie_chart_general", q, NoneStr, create_pie_chart_general(ch_df, q))

PieChartByGender ==
    \E q \in Questions, f \in GenderFilters :
        Returns("create_pie_chart_by_gender", q, f, create_pie_chart_by_gender(ch_df, q, f))

PieChartBySchool ==
    \E q \in Questions, f \in SchoolFilters :
        Returns("create_pie_chart_by_school", q, f, create_pie_chart_by_school(ch_df, q, f))

PieChartByIncome ==
    \E q \in Questions, f \in IncomeFilters :
        Returns("create_pie_chart_by_income", q, f, create_pie_chart_by_income(ch_df, q, f))

---------------------------------------------------------------------------
(* Claims about the chart functions                                        *)

GeneralCharts == {"create_bar_chart_general", "create_pie_chart_general"}
BarChartsBy ==
    {"create_bar_chart_by_gender", "create_bar_chart_by_school",
     "create_bar_chart_by_income"}
PieChartsBy ==
    {"create_pie_chart_by_gender", "create_pie_chart_by_school",
     "create_pie_chart_by_income"}

\* the demographic column a chart function splits or filters by
DemographicOf(fn) ==
    CASE fn \in {"create_bar_chart_by_gender", "create_pie_chart_by_gender"} -> "Q2_GENDER"
      [] fn \in {"create_bar_chart_by_school", "create_pie_chart_by_school"} -> "Q3_SCHOOL"
      [] fn \in {"create_bar_chart_by_income", "create_pie_chart_by_income"} -> "Q4_INCOME"

\* the codes of a demographic column and their labels
LabelsOf(column) ==
    CASE column = "Q2_GENDER" -> (0 :> "Female") @@ (1 :> "Male")
      [] column = "Q3_SCHOOL" -> school
      [] column = "Q4_INCOME" -> income

ColumnMissing(df, call) ==
    \/ call.question \notin df.cols
    \/ call.fn \notin GeneralCharts /\ DemographicOf(call.fn) \notin df.cols

FilterInvalid(call) ==
    /\ call.fn \in PieChartsBy
    /\ call.filter # NoneStr
    /\ call.filter \notin {LabelsOf(DemographicOf(call.fn))[k] :
                             k \in DOMAIN LabelsOf(DemographicOf(call.fn))}

\* a row has one of the five answer codes
HasAnswer(r, call) == r[call.question] \in 1..5

\* a row has a code of the function's demographic column
HasGroup(r, call) == r[DemographicOf(call.fn)] \in DOMAIN LabelsOf(DemographicOf(call.fn))

\* a row belongs to the group the filter names (any group without filter)
InFilter(r, call) ==
    /\ HasGroup(r, call)
    /\ call.filter # NoneStr =>
          LabelsOf(DemographicOf(call.fn))[r[DemographicOf(call.fn)]] = call.filter

\* no row of the dataframe can be drawn by the function
NothingToPlot(df, call) ==
    \A i \in 1..Len(df.rows) :
        LET r == df.rows[i]
        IN  CASE call.fn \in GeneralCharts -> ~HasAnswer(r, call)
              [] call.fn \in BarChartsBy -> ~HasGroup(r, call)
              [] call.fn \in PieChartsBy -> ~(InFilter(r, call) /\ HasAnswer(r, call))

---------------------------------------------------------------------------
(* visualize_survey_responses: the dispatcher                              *)

\* load_data(): the dataframe of cleaned_data.csv, or None when the file is
\* missing, empty or cannot be parsed
load_data(csv) == IF csv.readable THEN [is_none |-> FALSE, df |-> csv.df]
                  ELSE [is_none |-> TRUE, df |-> [cols |-> {}, rows |-> << >>]]

\* a dispatcher that passes any gender filter on
GenderFilterUnchecked(filter) == TRUE

\* gender_filter not in ('Male', 'Female') raises ValueError
GenderFilterAccepted(filter) == filter \in {"Male", "Female"}

\* school_filter not in school.values() raises ValueError
SchoolFilterAccepted(filter) == filter \in DictValues(school)

\* income_filter not in income.values() raises ValueError
IncomeFilterAccepted(filter) == filter \in DictValues(income)

\* the outcome of a call: the chart functions invoked and the value returned
Outcome(calls, result) == [calls |-> calls, result |-> result]

\* an exception raised by the routing logic: caught, None is returned
Raised == Outcome(<< >>, None)

visualize_survey_responses(csv, a) ==
    LET loaded == load_data(csv)
        survey_data == loaded.df
        q == a.selected_question
    IN  IF loaded.is_none THEN Outcome(<< >>, None)
        ELSE IF a.distinction_by_gender THEN
            IF "Q2_GENDER" \notin survey_data.cols THEN Raised
            ELSE Outcome(<<"create_bar_chart_by_gender">>,
                         create_bar_chart_by_gender(survey_data, q))
        ELSE IF a.distinction_by_school THEN
            IF "Q3_SCHOOL" \notin survey_data.cols THEN Raised
            ELSE Outcome(<<"create_bar_chart_by_school">>,
                         create_bar_chart_by_school(survey_data, q))
        ELSE IF a.distinction_by_income THEN
            IF "Q4_INCOME" \notin survey_data.cols THEN Raised
            ELSE Outcome(<<"create_bar_chart_by_income">>,
                         create_bar_chart_by_income(survey_data, q))
        ELSE IF a.pie_chart THEN
            Outcome(<<"create_pie_chart_general">>,
                    create_pie_chart_general(survey_data, q))
        ELSE IF a.pie_chart_by_gender THEN
            IF ~GenderFilterAccepted(a.gender_filter) THEN Raised
            ELSE Outcome(<<"create_pie_chart_by_gender">>,
                         create_pie_chart_by_gender(survey_data, q, a.gender_filter))
        ELSE IF a.pie_chart_by_school THEN
            IF ~SchoolFilterAccepted(a.school_filter) THEN Raised
            ELSE Outcome(<<"create_pie_chart_by_school">>,
                         create_pie_chart_by_school(survey_data, q, a.school_filter))
        ELSE IF a.pie_chart_by_income THEN
            IF ~IncomeFilterAccepted(a.income_filter) THEN Raised
            ELSE Outcome(<<"create_pie_chart_by_income">>,
                         create_pie_chart_by_income(survey_data, q, a.income_filter))
        ELSE Outcome(<<"create_bar_chart_general">>,
                     create_bar_chart_general(survey_data, q))

\* every combination of the flags and of the filter values
VisualizeArgs ==
    [selected_question : {"SC1"},
     distinction_by_gender : BOOLEAN, distinction_by_school : BOOLEAN,
     distinction_by_income : BOOLEAN, pie_chart : BOOLEAN,
     gender_filter : GenderFilters, pie_chart_by_gender : BOOLEAN,
     school_filter : SchoolFilters, pie_chart_by_school : BOOLEAN,
     income_filter : IncomeFilters, pie_chart_by_income : BOOLEAN]

DefaultArgs ==
    [selected_question |-> "SC1",
     distinction_by_gender |-> FALSE, distinction_by_school |-> FALSE,
     distinction_by_income |-> FALSE, pie_chart |-> FALSE,
     gender_filter |-> NoneStr, pie_chart_by_gender |-> FALSE,
     school_filter |-> NoneStr, pie_chart_by_school |-> FALSE,
     income_filter |-> NoneStr, pie_chart_by_income |-> FALSE]

\* the rows of the cleaned data the dispatcher is run on: none, a man who
\* agrees, a woman whose answer has no label
DispatchRows ==
    {<< >>,
     <<[SC1 |-> 4, Q2_GENDER |-> 1, Q3_SCHOOL |-> 1, Q4_INCOME |-> 1]>>,
     <<[SC1 |-> 0, Q2_GENDER |-> 0, Q3_SCHOOL |-> 2, Q4_INCOME |-> 2]>>}

CsvFiles ==
    {[readable |-> FALSE, df |-> [cols |-> {}, rows |-> << >>]]}
        \cup {[readable |-> TRUE,
               df |-> [cols |-> cols,
                       rows |-> [i \in 1..Len(rows) |-> Project(rows[i], cols)]]] :
                cols \in ColumnSets, rows \in DispatchRows}

VsInit ==
    /\ vs_csv \in CsvFiles
    /\ vs_args \in VisualizeArgs
    /\ vs_calls = << >>
    /\ vs_result = None
    /\ vs_pc = "call"

VsIdle ==
    /\ vs_csv = [readable |-> FALSE, df |-> [cols |-> {}, rows |-> << >>]]
    /\ vs_args = DefaultArgs
    /\ vs_calls = << >>
    /\ vs_result = None
    /\ vs_pc = "idle"

\* a call visualize_survey_responses(selected_question, ...)
Visualize ==
    /\ vs_pc = "call"
    /\ LET out == visualize_survey_responses(vs_csv, vs_args)
       IN  /\ vs_calls' = out.calls
           /\ vs_result' = out.result
    /\ vs_pc' = "done"
    /\ UNCHANGED <<vs_csv, vs_args, not_vs>>

---------------------------------------------------------------------------
(* Claims about the dispatcher                                             *)

\* C7 (as stated): for every combination of flag and filter values, a call
\* that has loaded the data invokes exactly one chart-building function.
C7_ExactlyOneCall ==
    (vs_pc = "done" /\ vs_csv.readable) => Len(vs_calls) = 1

\* the chart the flags ask for: the first flag set, in the order in which
\* the dispatcher tests them
Requested(a) ==
    CASE a.distinction_by_gender -> "bar_by_gender"
      [] ~a.distinction_by_gender /\ a.distinction_by_school -> "bar_by_school"
      [] ~a.distinction_by_gender /\ ~a.distinction_by_school
            /\ a.distinction_by_income -> "bar_by_income"
      [] OTHER ->
            IF a.pie_chart THEN "pie"
            ELSE IF a.pie_chart_by_gender THEN "pie_by_gender"
            ELSE IF a.pie_chart_by_school THEN "pie_by_school"
            ELSE IF a.pie_chart_by_income THEN "pie_by_income"
            ELSE "bar"

\* the request lacks what its chart needs: the demographic column of a
\* distinction, or a filter value that names a group
Unservable(a, df) ==
    LET want == Requested(a)
    IN  \/ want = "bar_by_gender" /\ "Q2_GENDER" \notin df.cols
        \/ want = "bar_by_school" /\ "Q3_SCHOOL" \notin df.cols
        \/ want = "bar_by_income" /\ "Q4_INCOME" \notin df.cols
        \/ want = "pie_by_gender" /\ a.gender_filter \notin {"Male", "Female"}
        \/ want = "pie_by_school" /\ a.school_filter \notin {school[k] : k \in 1..8}
        \/ want = "pie_by_income" /\ a.income_filter \notin {income[k] : k \in 1..4}

\* C7 (amended): a call that has loaded the data invokes at most one
\* chart-building function: none when the chart asked for is a distinction
\* whose demographic column the data lacks or a filtered pie chart whose
\* filter value names no group (None is returned), and exactly one in every
\* other case.
C7_OneCallUnlessUnservable ==
    (vs_pc = "done" /\ vs_csv.readable) =>
        /\ Len(vs_calls) <= 1
        /\ Len(vs_calls) = 0 <=> Unservable(vs_args, vs_csv.df)
        /\ Len(vs_calls) = 0 => vs_result = None

\* a gender pie chart asked for with a filter that names no gender, on data
\* that has every column: no chart function is invoked
C7_Witness ==
    /\ vs_pc = "done"
    /\ vs_csv.readable
    /\ vs_csv.df.cols = AllColumns
    /\ Requested(vs_args) = "pie_by_gender"
    /\ vs_args.gender_filter = "Invalid"
    /\ vs_calls = << >>

---------------------------------------------------------------------------
(* The user store: src/FinalProject/assets/users_db.py                     *)

\* Text that the code inspects character by character (e-mail addresses)
\* is a sequence of one-character strings.
LowerAlphabet ==
    <<"a","b","c","d","e","f","g","h","i","j","k","l","m",
      "n","o","p","q","r","s","t","u","v","w","x","y","z">>

UpperAlphabet ==
    <<"A","B","C","D","E","F","G","H","I","J","K","L","M",
      "N","O","P","Q","R","S","T","U","V","W","X","Y","Z">>

Digits == {"0","1","2","3","4","5","6","7","8","9"}

Whitespace == {" ", "\t", "\n", "\r"}

Range(seq) == {seq[i] : i \in DOMAIN seq}

Letters == Range(LowerAlphabet) \cup Range(UpperAlphabet)

\* str.lower()
LowerChar(c) ==
    IF c \in Range(UpperAlphabet)
    THEN LowerAlphabet[CHOOSE i \in DOMAIN UpperAlphabet : UpperAlphabet[i] = c]
    ELSE c

lower(text) == [i \in DOMAIN text |-> LowerChar(text[i])]

\* str.strip()
RECURSIVE lstrip(_)
lstrip(text) ==
    IF text # << >> /\ Head(text) \in Whitespace
    THEN lstrip(Tail(text))
    ELSE text

RECURSIVE rstrip(_)
rstrip(text) ==
    IF text # << >> /\ text[Len(text)] \in Whitespace
    THEN rstrip(SubSeq(text, 1, Len(text) - 1))
    ELSE text

strip(text) == rstrip(lstrip(text))

\* EMAIL_REGEX:
\*   ^[a-zA-Z0-9._%+-]+@[a-zA-Z0-9-]+(\.[a-zA-Z0-9-]+)*\.[a-zA-Z]{2,}$
LocalChars == Letters \cup Digits \cup {".", "_", "%", "+", "-"}

LabelChars == Letters \cup Digits \cup {"-"}

\* [a-zA-Z0-9-]+(\.[a-zA-Z0-9-]+)* : labels of at least one character,
\* separated by single dots
IsLabels(text) ==
    /\ text # << >>
    /\ \A i \in DOMAIN text : text[i] \in LabelChars \cup {"."}
    /\ text[1] # "."
    /\ text[Len(text)] # "."
    /\ \A i \in 1..(Len(text) - 1) : ~(text[i] = "." /\ text[i + 1] = ".")

EMAIL_REGEX_match(text) ==
    LET ats  == {i \in DOMAIN text : text[i] = "@"}
    IN  /\ Cardinality(ats) = 1
        /\ LET at     == CHOOSE i \in ats : TRUE
               local  == SubSeq(text, 1, at - 1)
               domain == SubSeq(text, at + 1, Len(text))
               dots   == {i \in DOMAIN domain : domain[i] = "."}
           IN  /\ local # << >>
               /\ \A i \in DOMAIN local : local[i] \in LocalChars
               /\ dots # {}
               /\ LET last == CHOOSE i \in dots : \A j \in dots : j <= i
                      tld  == SubSeq(domain, last + 1, Len(domain))
                  IN  /\ Len(tld) >= 2
                      /\ \A i \in DOMAIN tld : tld[i] \in Letters
                      /\ IsLabels(SubSeq(domain, 1, last - 1))

\* email.strip().lower(), or the address as typed
EmailAsTyped(email) == email

NormalizeEmail(email) == lower(strip(email))


\* bcrypt: the hash carries its salt, and a password matches a hash when
\* hashing it with the hash's salt gives the hash again.
hashpw(password, salt) == [salt |-> salt, digest |-> <<salt, password>>]

checkpw(password, hashed) == hashpw(password, hashed.salt) = hashed

\* The exceptions a call can end in.
NoError == "none"
ValueError == "ValueError"
ValidationError == "ValidationError"
DatabaseError == "DatabaseError"

\* users_db.json is absent, holds a JSON object of users, or holds bytes
\* that json.load cannot decode.
AbsentFile == [state |-> "absent", users |-> EmptyDict]

GarbledFile == [state |-> "garbled", users |-> EmptyDict]

JsonFile(users) == [state |-> "json", users |-> users]

validate_users_db(users_db) ==
    \A username \in DOMAIN users_db : EMAIL_REGEX_match(users_db[username].email)

\* load_users_db(): the dictionary loaded, or the exception raised
load_users_db(file) ==
    CASE file.state = "absent" ->
            [raised |-> NoError, users |-> EmptyDict]
      [] file.state = "garbled" ->
            [raised |-> DatabaseError, users |-> EmptyDict]
      [] OTHER ->
            IF validate_users_db(file.users)
            THEN [raised |-> NoError, users |-> file.users]
            ELSE [raised |-> DatabaseError, users |-> EmptyDict]

\* save_users_db(users_db): the file after json.dump
save_only_new_users(users_db) == JsonFile(EmptyDict)

save_users_db(users_db) == JsonFile(users_db)

\* add_user_to_db(username, email, password): the exception raised and the
\* file the call leaves behind
add_user_to_db(file, username, typed_email, password, salt) ==
    LET email  == NormalizeEmail(typed_email)
        loaded == load_users_db(file)
        users_db == loaded.users
    IN  IF ~EMAIL_REGEX_match(email)
        THEN [raised |-> ValueError, file |-> file, writes |-> 0]
        ELSE IF loaded.raised # NoError
        THEN [raised |-> DatabaseError, file |-> file, writes |-> 0]
        ELSE IF username \in DOMAIN users_db
        THEN [raised |-> ValueError, file |-> file, writes |-> 0]
        ELSE IF \E u \in DOMAIN users_db : users_db[u].email = email
        THEN [raised |-> ValueError, file |-> file, writes |-> 0]
        ELSE [raised |-> NoError,
              writes |-> 1,
              file   |-> save_users_db(
                             users_db @@
                             (username :> [email |-> email,
                                           password_hash |-> hashpw(password, salt)]))]

\* get_user_by_username(username): the record, or None
NoUser == [found |-> FALSE]

get_user_by_username(file, username) ==
    LET loaded == load_users_db(file)
    IN  IF loaded.raised # NoError
        THEN NoUser
        ELSE IF username \in DOMAIN loaded.users
        THEN [found |-> TRUE,
              email |-> loaded.users[username].email,
              password_hash |-> loaded.users[username].password_hash]
        ELSE NoUser

\* check_password_hash(stored_hash, password)
AnyPasswordMatches(stored_hash, password) == TRUE

check_password_hash(stored_hash, password) == checkpw(password, stored_hash)


\* The arguments the calls are made with.
Usernames == {"ann", "bob"}

Passwords == {"pw1", "pw2"}

Salts == {"s1", "s2"}

Emails ==
    { <<"a","@","b",".","i","o">>,
      <<"A","@","B",".","I","O">>,
      <<" ","a","@","b",".","i","o"," ">>,
      <<"c","@","b",".","i","o">>,
      <<"a","@","b">> }

NoAdd == [username |-> "", email |-> << >>, existed |-> FALSE,
          raised |-> "not called"]

NoLogin == [username |-> "", password |-> "", outcome |-> "not attempted"]

NoLoad == [called |-> FALSE, raised |-> NoError, users |-> EmptyDict]

UsInit ==
    /\ us_file \in {AbsentFile, GarbledFile}
    /\ us_add = NoAdd
    /\ us_login = NoLogin
    /\ us_feedback = ""
    /\ us_dashboard = FALSE
    /\ us_main_open = TRUE
    /\ us_load = NoLoad
    /\ us_writes = 0

UsIdle ==
    /\ us_file = AbsentFile
    /\ us_add = NoAdd
    /\ us_login = NoLogin
    /\ us_feedback = ""
    /\ us_dashboard = FALSE
    /\ us_main_open = TRUE
    /\ us_load = NoLoad
    /\ us_writes = 0

\* One call of add_user_to_db.
AddUser ==
    \E username \in Usernames, email \in Emails,
       password \in Passwords, salt \in Salts :
        LET call == add_user_to_db(us_file, username, email, password, salt)
        IN  /\ us_file' = call.file
            /\ us_add' = [username |-> username,
                          email    |-> email,
                          existed  |-> username \in DOMAIN us_file.users,
                          raised   |-> call.raised]
            /\ us_writes' = us_writes + call.writes
            /\ UNCHANGED <<us_login, us_feedback, us_dashboard, us_main_open,
                           us_load, not_us>>

\* The files load_users_db can find: none, an undecodable one, or a JSON
\* object of users as any writer may have left it.
StoredRecords ==
    [email : Emails,
     password_hash : {hashpw(p, salt) : p \in Passwords, salt \in Salts}]

StoreFiles ==
    {AbsentFile, GarbledFile}
        \cup {JsonFile(users) : users \in PartialMaps(Usernames, StoredRecords)}

LdInit ==
    /\ us_file \in StoreFiles
    /\ us_add = NoAdd
    /\ us_login = NoLogin
    /\ us_feedback = ""
    /\ us_dashboard = FALSE
    /\ us_main_open = TRUE
    /\ us_load = NoLoad
    /\ us_writes = 0

\* One direct call of load_users_db.
LoadUsers ==
    LET loaded == load_users_db(us_file)
    IN  /\ us_load' = [called |-> TRUE, raised |-> loaded.raised,
                       users |-> loaded.users]
        /\ UNCHANGED <<us_file, us_add, us_login, us_feedback, us_dashboard,
                       us_main_open, us_writes, not_us>>

---------------------------------------------------------------------------
(* The login window: src/FinalProject/windows/main_window.py               *)

\* are_credentials_valid(username, password): the message shown for an
\* empty field, "" when both fields are filled
EmptyFieldMessage(username, password) ==
    IF username = "" THEN "Username cannot be empty."
    ELSE IF password = "" THEN "Password cannot be empty."
    ELSE ""

are_credentials_valid(username, password) ==
    EmptyFieldMessage(username, password) = ""

\* handle_login_error(user)
handle_login_error(user) ==
    IF ~user.found
    THEN "User not found. Please try again."
    ELSE "Incorrect password. Please try again."

\* What can be typed into the username field, with its characters: nothing,
\* a username, or an e-mail address.
Spelling ==
    ("" :> << >>)
        @@ ("ann" :> <<"a","n","n">>)
        @@ ("bob" :> <<"b","o","b">>)
        @@ ("a@b.io" :> <<"a","@","b",".","i","o">>)

LoginIdentifiers == DOMAIN Spelling

\* on_login with the text of the two input fields; dashboard_opens is
\* whether creating and showing the DashboardWindow succeeds
Login ==
    \E username \in LoginIdentifiers, password \in Passwords \cup {""},
       dashboard_opens \in BOOLEAN :
        LET user == get_user_by_username(us_file, username)
            attempt(outcome) == [username |-> username,
                                 password |-> password,
                                 outcome  |-> outcome]
        IN  /\ us_main_open
            /\ IF ~are_credentials_valid(username, password)
               THEN /\ us_feedback' = EmptyFieldMessage(username, password)
                    /\ us_login' = attempt("rejected")
                    /\ UNCHANGED <<us_dashboard, us_main_open>>
               ELSE IF user.found
                       /\ check_password_hash(user.password_hash, password)
               THEN \* login_successful
                    IF dashboard_opens
                    THEN /\ us_dashboard' = TRUE
                         /\ us_main_open' = FALSE
                         /\ us_login' = attempt("opened")
                         /\ UNCHANGED us_feedback
                    ELSE /\ us_feedback' =
                              "Failed to open dashboard window. Please try again later."
                         /\ us_login' = attempt("failed to open")
                         /\ UNCHANGED <<us_dashboard, us_main_open>>
               ELSE /\ us_feedback' = handle_login_error(user)
                    /\ us_login' = attempt("rejected")
                    /\ UNCHANGED <<us_dashboard, us_main_open>>
            /\ UNCHANGED <<us_file, us_add, us_load, us_writes, not_us>>

---------------------------------------------------------------------------
(* Claims about the user store and the login window                        *)

\* C4: a login attempt opens the dashboard only if the store is readable,
\* holds a record for the entered identifier, and the entered password
\* hashes to that record's stored hash; an attempt with an empty field, an
\* unknown user, a wrong password or an unreadable store never opens it.
C4_DashboardOnlyOnMatch ==
    /\ us_dashboard => us_login.outcome = "opened"
    /\ us_login.outcome = "opened" =>
          /\ us_login.username # ""
          /\ us_login.password # ""
          /\ us_file.state = "json"
          /\ us_login.username \in DOMAIN us_file.users
          /\ LET stored == us_file.users[us_login.username].password_hash
             IN  hashpw(us_login.password, stored.salt) = stored

\* a login with a registered name and its password has opened the dashboard
\* and closed the login window
C4_Witness ==
    /\ us_login.outcome = "opened"
    /\ us_dashboard
    /\ ~us_main_open
    /\ Cardinality(DOMAIN us_file.users) = 2

\* C5: add_user_to_db called with a username that is already in the store
\* raises ValidationError.
C5_ExistingUsernameRaisesValidationError ==
    us_add.existed => us_add.raised = ValidationError

\* Two addresses are the same when they differ only in letter case or in
\* surrounding whitespace.
SameAddress(e1, e2) == lower(strip(e1)) = lower(strip(e2))

\* C6: starting from an empty store, after any sequence of add_user_to_db
\* calls no two stored records have the same e-mail address, where
\* addresses differing only in case or surrounding whitespace are the same.
C6_NoTwoRecordsShareEmail ==
    \A u, v \in DOMAIN us_file.users :
        u # v => ~SameAddress(us_file.users[u].email, us_file.users[v].email)

\* an add under a new username was refused because its address, typed in
\* another case or with surrounding whitespace, is the address of a stored
\* record
C6_Witness ==
    /\ us_add.raised = ValueError
    /\ ~us_add.existed
    /\ \E u \in DOMAIN us_file.users :
          /\ us_file.users[u].email # us_add.email
          /\ SameAddress(us_file.users[u].email, us_add.email)

\* C11: the persisted store is the initial store plus one record per
\* successful registration.  A step that adds a record is a successful
\* add_user_to_db: it adds the record of the name it was called with and
\* writes the file once.  Every other step (a rejected add, or a login with
\* its lookup of the user) leaves the file as it was and writes nothing.  No step changes or
\* removes a record.
C11_StoreGrowsOnlyByRegistration ==
    /\ [](us_writes = Cardinality(DOMAIN us_file.users))
    /\ [][LET old == us_file.users
              new == us_file'.users
          IN  /\ \A u \in DOMAIN old : u \in DOMAIN new /\ new[u] = old[u]
              /\ (DOMAIN new = DOMAIN old) =>
                    /\ us_file' = us_file
                    /\ us_writes' = us_writes
              /\ (DOMAIN new # DOMAIN old) =>
                    /\ us_add'.raised = NoError
                    /\ DOMAIN new = DOMAIN old \cup {us_add'.username}
                    /\ us_writes' = us_writes + 1]_vars

\* two registrations succeeded, a third was refused, and a login looked a
\* user up
C11_Witness ==
    /\ us_writes = 2
    /\ Cardinality(DOMAIN us_file.users) = 2
    /\ us_add.raised = ValueError
    /\ us_login.outcome = "rejected"

\* C12: load_users_db returns an empty dictionary when users_db.json exists
\* but does not hold valid JSON.
C12_InvalidJsonGivesEmptyDict ==
    (us_load.called /\ us_file.state = "garbled") =>
        (us_load.raised = NoError /\ us_load.users = EmptyDict)

\* a registered user matches the identifier by username or by e-mail
MatchesIdentifier(users, identifier) ==
    \E u \in DOMAIN users :
        \/ u = identifier
        \/ SameAddress(users[u].email, Spelling[identifier])

\* C13: on a failed login with both fields filled in, "User not found.
\* Please try again." is shown exactly when no registered user matches the
\* entered identifier by username or by e-mail, and "Incorrect password.
\* Please try again." exactly when a registered user matches but the
\* password does not.  (A step that leaves the store and the last add as
\* they were is a login attempt.)
C13_MessageTellsWhichCheckFailed ==
    [][(/\ UNCHANGED <<us_file, us_add, us_load, us_writes>>
        /\ us_login'.outcome = "rejected"
        /\ us_login'.username # ""
        /\ us_login'.password # "")
       => LET matched == MatchesIdentifier(us_file.users, us_login'.username)
          IN  /\ (us_feedback' = "User not found. Please try again.") <=> ~matched
              /\ (us_feedback' = "Incorrect password. Please try again.") <=> matched]_vars

---------------------------------------------------------------------------
(* The preprocessing pipeline: main() of src/src/assets/preprocess.py      *)

\* A CSV file: whether it exists, the rows it holds, and the run of main()
\* that wrote it (0 while it does not exist).
NoFile == [exists |-> FALSE, rows |-> << >>, run |-> 0]

\* read_xls_from_folder() returned None
NoData == [is_none |-> TRUE, rows |-> << >>]

columns == <<"numeric_col", "Q3_SCHOOL", "string_col">>

ColumnSet == {columns[i] : i \in DOMAIN columns}

\* the cells of a row, without its index label
Values(row) == [col \in ColumnSet |-> row[col]]

\* a missing cell: NaN in a numeric column, None in a text column
IsMissing(row, col) ==
    IF col \in NumColSet
    THEN IsNaN(row[col])
    ELSE row[col] = NoneStr

\* df.dropna()
dropna(df) ==
    SelectSeq(df, LAMBDA row : \A col \in ColumnSet : ~IsMissing(row, col))

\* df.drop_duplicates(): the first of equal rows stays
KeepDuplicates(df) == df

drop_duplicates(df) ==
    SelectSeq(df, LAMBDA row :
        ~\E j \in DOMAIN df :
            /\ df[j].idx < row.idx
            /\ Values(df[j]) = Values(row))

\* summary(df): one row per column of df, labelled with the column's name.
\* Of the statistics the function derives from df, the model keeps
\* Missing#, Dups, Cardinality, Count, Min, Max and First Value.  An empty
\* df makes df.mode().iloc[0] raise, and the function returns an empty
\* frame.
ColumnValues(df, col) ==
    {df[i][col] : i \in {j \in DOMAIN df : ~IsMissing(df[j], col)}}

Smallest(S) == IF S = {} THEN NaN ELSE CHOOSE x \in S : \A y \in S : x <= y

Largest(S) == IF S = {} THEN NaN ELSE CHOOSE x \in S : \A y \in S : y <= x

summary(df) ==
    IF df = << >> THEN << >>
    ELSE [c \in DOMAIN columns |->
            LET col == columns[c]
                present == {i \in DOMAIN df : ~IsMissing(df[i], col)}
            IN  [idx         |-> col,
                 Missing     |-> Len(df) - Cardinality(present),
                 Dups        |-> Cardinality(
                                    {i \in DOMAIN df :
                                        \E j \in 1..(i - 1) :
                                            Values(df[j]) = Values(df[i])}),
                 Cardinality |-> Cardinality(ColumnValues(df, col)),
                 Count       |-> Cardinality(present),
                 Min         |-> IF col \in NumColSet
                                 THEN Smallest(ColumnValues(df, col)) ELSE NaN,
                 Max         |-> IF col \in NumColSet
                                 THEN Largest(ColumnValues(df, col)) ELSE NaN,
                 First       |-> df[1][col]]]

\* DataFrame.to_csv(path, index=False): the index labels are not written, a
\* missing cell is written as an empty field (NaN stands for the empty
\* field of a numeric column), and the file is replaced.
CsvRow(row) ==
    [f \in (DOMAIN row) \ {"idx"} |->
        IF f = "string_col" /\ row[f] = NoneStr THEN "" ELSE row[f]]

CsvRows(df) == [i \in DOMAIN df |-> CsvRow(df[i])]

to_csv_append(file, df, run) ==
    [exists |-> TRUE, rows |-> file.rows \o CsvRows(df), run |-> run]

to_csv(file, df, run) ==
    [exists |-> TRUE, rows |-> CsvRows(df), run |-> run]

\* The runs of main() and the sheets read_xls_from_folder finds.
MaxRuns == 4

MaxPipelineRows == 2

PipelineRows ==
    { [numeric_col |-> 3,   Q3_SCHOOL |-> 8, string_col |-> "a"],
      [numeric_col |-> 4,   Q3_SCHOOL |-> 8, string_col |-> "a"],
      [numeric_col |-> 6,   Q3_SCHOOL |-> 8, string_col |-> "a"],
      [numeric_col |-> 3,   Q3_SCHOOL |-> 9, string_col |-> "a"],
      [numeric_col |-> NaN, Q3_SCHOOL |-> 8, string_col |-> "a"],
      [numeric_col |-> 3,   Q3_SCHOOL |-> 8, string_col |-> NoneStr] }

PipelineInputs ==
    {NoData} \cup
    {[is_none |-> FALSE, rows |-> WithIndex(rows)] :
        rows \in SeqsUpTo(PipelineRows, MaxPipelineRows)}

NoThresholds == [is_none |-> TRUE, dict |-> EmptyDict]

PlInit ==
    /\ pl_input = NoData
    /\ pl_cleaned = NoFile
    /\ pl_processed = NoFile
    /\ pl_runs = 0

PlIdle ==
    /\ pl_input = NoData
    /\ pl_cleaned = NoFile
    /\ pl_processed = NoFile
    /\ pl_runs = 0

\* the cleaning steps of main(), in order
CleanedFrame(df) == drop_duplicates(dropna(remove_outliers(df, NoThresholds)))

\* One run of main().  A run that loads no data raises ValueError, which the
\* function catches and reports; it writes nothing.
Main ==
    \E input \in PipelineInputs :
        /\ pl_runs < MaxRuns
        /\ pl_runs' = pl_runs + 1
        /\ pl_input' = input
        /\ IF input.is_none
           THEN UNCHANGED <<pl_cleaned, pl_processed>>
           ELSE LET df == CleanedFrame(input.rows)
                IN  /\ pl_cleaned' = to_csv(pl_cleaned, df, pl_runs + 1)
                    /\ pl_processed' = to_csv(pl_processed, summary(df), pl_runs + 1)
        /\ UNCHANGED not_pl

---------------------------------------------------------------------------
(* Claims about the preprocessing pipeline                                 *)

\* C9: whenever the pipeline has written cleaned_data.csv, the written
\* dataset has no numeric value outside its column's range, no row with a
\* missing value and no two identical rows, and processed_data.csv holds
\* the summary computed from that same dataset.
C9_CleanedFileIsCleanAndSummarised ==
    pl_cleaned.exists =>
        /\ \A i \in DOMAIN pl_cleaned.rows :
              /\ \A col \in NumColSet :
                    /\ pl_cleaned.rows[i][col] # NaN
                    /\ pl_cleaned.rows[i][col] >= 0
                    /\ pl_cleaned.rows[i][col] <= StatedBound(NoThresholds, col)
              /\ pl_cleaned.rows[i].string_col # ""
        /\ \A i, j \in DOMAIN pl_cleaned.rows :
              i # j => pl_cleaned.rows[i] # pl_cleaned.rows[j]
        /\ pl_processed.exists
        /\ pl_processed.run = pl_cleaned.run
        /\ pl_processed.rows = CsvRows(summary(pl_cleaned.rows))

\* a run read two rows, cleaning left one of them, and both files were
\* written
C9_Witness ==
    /\ pl_cleaned.exists
    /\ pl_cleaned.run = pl_runs
    /\ Len(pl_input.rows) = 2
    /\ Len(pl_cleaned.rows) = 1
    /\ Len(pl_processed.rows) = Len(columns)

\* C10 as stated: after any sequence of runs both files were written by the
\* most recent run.
C10_EveryRunReplacesBothFiles ==
    pl_runs > 0 =>
        /\ pl_cleaned.exists /\ pl_cleaned.run = pl_runs
        /\ pl_processed.exists /\ pl_processed.run = pl_runs

\* C10: after any sequence of runs, if the most recent run loaded data then
\* both files were written by it and hold exactly what its input gives,
\* nothing of an earlier run; if it loaded no data then neither file was
\* written by it, and both are as one same earlier run left them.
C10_LoadedRunReplacesBothFiles ==
    pl_runs > 0 =>
        IF ~pl_input.is_none
        THEN /\ pl_cleaned =
                    [exists |-> TRUE,
                     rows   |-> CsvRows(CleanedFrame(pl_input.rows)),
                     run    |-> pl_runs]
             /\ pl_processed =
                    [exists |-> TRUE,
                     rows   |-> CsvRows(summary(CleanedFrame(pl_input.rows))),
                     run    |-> pl_runs]
        ELSE /\ pl_cleaned.run < pl_runs
             /\ pl_processed.run = pl_cleaned.run
             /\ pl_processed.exists = pl_cleaned.exists

\* a run that found no data came after a run that wrote rows: the files of
\* the earlier run are still there
C10_Witness ==
    /\ pl_runs >= 2
    /\ pl_input.is_none
    /\ pl_cleaned.exists
    /\ pl_cleaned.rows # << >>
    /\ pl_cleaned.run < pl_runs

---------------------------------------------------------------------------
(* The validators: src/src/assets/utils.py and src/src/assets/regex.py     *)

Alnum == Letters \cup Digits

\* the positions at which "$" matches in text: its end, and just before a
\* final newline
DollarEnds(text) ==
    {Len(text)} \cup
        (IF text # << >> /\ text[Len(text)] = "\n" THEN {Len(text) - 1} ELSE {})

\* UsernameValidator.validate_username(username): re.search of the four
\* patterns of USERNAME_REGEX, all of which must match.  Without the
\* requirement labels the lookup of a label raises and the result is False.
validate_username(labels_created, username) ==
    LET length      == \E i \in 1..(Len(username) - 2) :
                            \A j \in i..(i + 2) : username[j] # "\n"
        valid_chars == \E e \in DollarEnds(username) :
                            /\ e >= 1
                            /\ \A j \in 1..e :
                                  username[j] \in Alnum \cup {".", "_", "-"}
        start_alnum == username # << >> /\ username[1] \in Alnum
        end_alnum   == \E e \in DollarEnds(username) :
                            e >= 1 /\ username[e] \in Alnum
    IN  labels_created /\ length /\ valid_chars /\ start_alnum /\ end_alnum

\* PasswordValidator.validate_password(password): the five patterns of
\* PASSWORD_REGEX that the validator uses
validate_password(labels_created, password) ==
    LET upper   == \E i \in DOMAIN password : password[i] \in Range(UpperAlphabet)
        lower_  == \E i \in DOMAIN password : password[i] \in Range(LowerAlphabet)
        number  == \E i \in DOMAIN password : password[i] \in Digits
        special == \E i \in DOMAIN password :
                        password[i] \in {"@", "$", "!", "%", "*", "?", "&"}
        length  == \E e \in DollarEnds(password) :
                        /\ e >= 8 /\ e <= 16
                        /\ \A j \in 1..e : password[j] # "\n"
    IN  labels_created /\ upper /\ lower_ /\ number /\ special /\ length

\* The usernames validate_username is called with: a first character, a
\* run of one repeated character, and a last character.
MaxFill == 18

RECURSIVE Fill(_, _)
Fill(c, n) == IF n = 0 THEN << >> ELSE <<c>> \o Fill(c, n - 1)

UsernameInputs ==
    {<< >>}
        \cup {<<f>> : f \in {"a", "."}}
        \cup {<<f>> \o Fill(m, n) \o <<l>> :
                f \in {"a", "Z", "7", ".", "-", "@"},
                m \in {"a", "_", "@"},
                n \in 0..MaxFill,
                l \in {"a", "9", ".", "_", "\n", "!"}}

UvIdle == uv = [pc |-> "idle", labels |-> TRUE, username |-> << >>,
                accepted |-> FALSE]

UvInit ==
    \E username \in UsernameInputs, labels \in BOOLEAN :
        uv = [pc |-> "call", labels |-> labels, username |-> username,
              accepted |-> FALSE]

ValidateUsername ==
    /\ uv.pc = "call"
    /\ uv' = [uv EXCEPT !.pc = "done",
                        !.accepted = validate_username(uv.labels, uv.username)]
    /\ UNCHANGED not_uv

\* C18: validate_username accepts a username only if its length is between
\* 3 and 18 characters, it contains only alphanumeric characters, dots,
\* hyphens and underscores, and it starts and ends with an alphanumeric
\* character.
C18_AcceptedUsernamesAreWellFormed ==
    (uv.pc = "done" /\ uv.accepted) =>
        /\ Len(uv.username) >= 3
        /\ Len(uv.username) <= 18
        /\ \A i \in DOMAIN uv.username :
              uv.username[i] \in Alnum \cup {".", "_", "-"}
        /\ uv.username[1] \in Alnum
        /\ uv.username[Len(uv.username)] \in Alnum

---------------------------------------------------------------------------
(* The registration window: src/src/windows/registration_window.py and     *)
(* src/FinalProject/windows/registration_window.py                         *)

\* What the user can put into the three input fields.
RegUsernames ==
    { << >>, <<" ", "a", "n", "n", " ">>, <<"b", "o", "b">>, <<"a", ".">> }

RegEmails ==
    { << >>, <<" ", "a", "@", "b", ".", "i", "o">>, <<"c", "@", "b", ".", "i", "o">> }

RegPasswords ==
    { << >>, <<"a", "a", "a">>, <<" ", "A", "a", "1", "!", "a", "a", "a", "a">> }

\* RegistrationWindow.__init__, shown.  The class of src/src names its
\* handler close_event, which Qt does not call; the class of FinalProject
\* overrides closeEvent.
NewWindow(variant) ==
    [variant |-> variant, open |-> TRUE, closed_once |-> FALSE,
     is_closing |-> FALSE, is_registered |-> FALSE,
     username |-> << >>, email |-> << >>, password |-> << >>,
     pw_timer |-> FALSE, un_timer |-> FALSE,
     pw_labels |-> FALSE, un_labels |-> FALSE,
     event |-> "init", ran |-> "none", called_add |-> FALSE, message |-> ""]

RgIdle == rg = [NewWindow("src") EXCEPT !.open = FALSE]

RgInit == \E variant \in {"src", "FinalProject"} : rg = NewWindow(variant)

\* _validate_username(), the slot of username_input.textChanged
rg_validate_username(w) ==
    IF w.is_closing \/ w.is_registered
    THEN w
    ELSE [w EXCEPT !.un_labels = TRUE, !.un_timer = TRUE, !.ran = "username"]

\* _validate_password(), the slot of password_input.textChanged
rg_validate_password(w) ==
    IF w.is_closing \/ w.is_registered
    THEN w
    ELSE [w EXCEPT !.pw_labels = TRUE, !.pw_timer = TRUE, !.ran = "password"]

\* QWidget.close(): Qt delivers the close event to closeEvent
close(w) ==
    IF w.variant = "FinalProject"
    THEN [w EXCEPT !.open = FALSE, !.closed_once = TRUE, !.is_closing = TRUE,
                   !.pw_timer = FALSE, !.un_timer = FALSE]
    ELSE [w EXCEPT !.open = FALSE, !.closed_once = TRUE]

\* The checks of _on_register before add_user_to_db: the message shown, or
\* "" when all of them pass
NoPasswordCheck(username, email, password) ==
    IF username = << >> \/ email = << >> \/ password = << >>
    THEN "Please fill in all fields."
    ELSE IF ~validate_username(TRUE, username)
    THEN "Username does not meet all requirements."
    ELSE ""

RegistrationError(username, email, password) ==
    IF username = << >> \/ email = << >> \/ password = << >>
    THEN "Please fill in all fields."
    ELSE IF ~validate_username(TRUE, username)
    THEN "Username does not meet all requirements."
    ELSE IF ~validate_password(TRUE, password)
    THEN "Password does not meet all requirements."
    ELSE ""

TypeUsername ==
    \E text \in RegUsernames :
        /\ rg.open
        /\ text # rg.username
        /\ rg' = rg_validate_username(
                    [rg EXCEPT !.username = text, !.event = "username",
                               !.ran = "none"])
        /\ UNCHANGED not_rg

TypeEmail ==
    \E text \in RegEmails :
        /\ rg.open
        /\ text # rg.email
        /\ rg' = [rg EXCEPT !.email = text, !.event = "email", !.ran = "none"]
        /\ UNCHANGED not_rg

TypePassword ==
    \E text \in RegPasswords :
        /\ rg.open
        /\ text # rg.password
        /\ rg' = rg_validate_password(
                    [rg EXCEPT !.password = text, !.event = "password",
                               !.ran = "none"])
        /\ UNCHANGED not_rg

\* The timeout of a validator's timer: hide_labels()
TimerFires ==
    \/ /\ rg.un_timer
       /\ rg' = [rg EXCEPT !.un_timer = FALSE, !.un_labels = FALSE,
                           !.event = "timeout", !.ran = "none"]
       /\ UNCHANGED not_rg
    \/ /\ rg.pw_timer
       /\ rg' = [rg EXCEPT !.pw_timer = FALSE, !.pw_labels = FALSE,
                           !.event = "timeout", !.ran = "none"]
       /\ UNCHANGED not_rg

\* The user closes the window.
CloseWindow ==
    /\ rg.open
    /\ rg' = close([rg EXCEPT !.event = "close", !.ran = "none"])
    /\ UNCHANGED not_rg

\* MainWindow.open_registration_window() shows the window it created before.
Reopen ==
    /\ rg.variant = "FinalProject"
    /\ ~rg.open
    /\ rg' = [rg EXCEPT !.open = TRUE, !.event = "show", !.ran = "none"]
    /\ UNCHANGED not_rg

\* _on_register(), the slot of the Register button
Register ==
    /\ rg.open
    /\ LET username == strip(rg.username)
           email    == strip(rg.email)
           password == strip(rg.password)
           error    == RegistrationError(username, email, password)
           pressed  == [rg EXCEPT !.event = "register", !.ran = "none"]
       IN  IF error # ""
           THEN /\ rg' = [pressed EXCEPT !.called_add = FALSE, !.message = error]
                /\ UNCHANGED <<us_file, us_add, us_writes>>
           ELSE \E salt \in Salts :
                  LET call == add_user_to_db(us_file, username, email,
                                             password, salt)
                  IN  /\ us_file' = call.file
                      /\ us_add' = [username |-> username, email |-> email,
                                    existed |-> username \in DOMAIN us_file.users,
                                    raised |-> call.raised]
                      /\ us_writes' = us_writes + call.writes
                      /\ rg' = IF call.raised = NoError
                               THEN close([pressed EXCEPT
                                       !.called_add = TRUE,
                                       !.message = "User registered successfully!",
                                       !.is_registered = TRUE,
                                       !.username = << >>, !.email = << >>,
                                       !.password = << >>,
                                       !.pw_labels = FALSE, !.un_labels = FALSE])
                               ELSE IF call.raised = ValueError
                               THEN [pressed EXCEPT !.called_add = TRUE,
                                                    !.message = "str(value_err)"]
                               ELSE [pressed EXCEPT !.called_add = TRUE]
    /\ UNCHANGED <<us_login, us_feedback, us_dashboard, us_main_open, us_load,
                   not_us_rg>>

\* C14: the registration handler calls add_user_to_db only when username,
\* email and password are all non-empty and both validators accepted the
\* input; when any of these checks fails it shows the corresponding error
\* message and does not touch the user store.
C14_AddOnlyAfterAllChecks ==
    [][(rg'.event = "register") =>
        LET username == strip(rg.username)
            email    == strip(rg.email)
            password == strip(rg.password)
            filled   == username # << >> /\ email # << >> /\ password # << >>
            un_ok    == validate_username(TRUE, username)
            pw_ok    == validate_password(TRUE, password)
        IN  /\ rg'.called_add <=> (filled /\ un_ok /\ pw_ok)
            /\ ~filled => rg'.message = "Please fill in all fields."
            /\ (filled /\ ~un_ok) =>
                  rg'.message = "Username does not meet all requirements."
            /\ (filled /\ un_ok /\ ~pw_ok) =>
                  rg'.message = "Password does not meet all requirements."
            /\ ~(filled /\ un_ok /\ pw_ok) =>
                  UNCHANGED <<us_file, us_add, us_writes>>]_vars

C14_Witness ==
    /\ rg.event = "register"
    /\ ~rg.called_add
    /\ rg.message = "Password does not meet all requirements."
    /\ Cardinality(DOMAIN us_file.users) = 1
    /\ us_writes = 1

\* C15: when the registration window is closed, both validators'
\* label-hiding timers are stopped and no username or password validation
\* runs afterwards.
C15_ClosedWindowIsQuiet ==
    /\ ~rg.open => (~rg.pw_timer /\ ~rg.un_timer)
    /\ rg.closed_once => rg.ran = "none"

\* C30: after the registration window has been closed, or a registration
\* has succeeded, opening it again from the login window gives a window in
\* which typing in the username or password field shows live validation
\* again: in a window that is open after having been closed, a change of
\* either field runs its validation and shows its labels.
C30_ReopenedWindowValidates ==
    [][(rg.closed_once /\ rg.open /\ rg'.event \in {"username", "password"}) =>
            /\ rg'.ran = rg'.event
            /\ (rg'.event = "username" => rg'.un_labels /\ rg'.un_timer)
            /\ (rg'.event = "password" => rg'.pw_labels /\ rg'.pw_timer)]_vars

---------------------------------------------------------------------------
(* unzip_file: src/src/assets/download_files.py                            *)

MaxMembers == 2

MemberNames == {"a.xls", "b.xls"}

\* What unzip_file can find at zip_file_path, and what the file system does
\* during the call: ZipFile() may find the archive corrupt, extractall may
\* fail at a member, the file may be gone before os.path.exists looks, and
\* os.remove may fail.
ZipFiles ==
    {[kind |-> kind, members |-> << >>, open_fails |-> FALSE, fail_at |-> 0,
      vanished |-> FALSE, remove_fails |-> FALSE] : kind \in {"absent", "not_zip"}}
        \cup {[kind |-> "zip", members |-> m, open_fails |-> o, fail_at |-> f,
               vanished |-> v, remove_fails |-> r] :
                m \in SeqsUpTo(MemberNames, MaxMembers), o \in BOOLEAN,
                f \in 0..MaxMembers, v \in BOOLEAN, r \in BOOLEAN}

\* unzip_file(zip_file_path, extract_to_folder): the exception raised,
\* whether the ZIP file is still there, whether os.remove deleted it, and
\* the contents of the target folder
unzip_file_delete_first(zip, folder) ==
    IF zip.kind # "zip"
    THEN [raised |-> ValueError, zip_exists |-> zip.kind # "absent",
          removed |-> FALSE, folder |-> folder]
    ELSE [raised |-> IF zip.open_fails THEN "BadZipFile"
                     ELSE IF zip.fail_at \in 1..Len(zip.members) THEN "OSError"
                     ELSE NoError,
          zip_exists |-> FALSE, removed |-> TRUE,
          folder |-> IF zip.open_fails THEN folder
                     ELSE IF zip.fail_at \in 1..Len(zip.members)
                     THEN folder \cup {zip.members[i] : i \in 1..(zip.fail_at - 1)}
                     ELSE folder \cup Range(zip.members)]

unzip_file(zip, folder) ==
    IF zip.kind # "zip"
    THEN [raised |-> ValueError, zip_exists |-> zip.kind # "absent",
          removed |-> FALSE, folder |-> folder]
    ELSE IF zip.open_fails
    THEN [raised |-> "BadZipFile", zip_exists |-> TRUE, removed |-> FALSE,
          folder |-> folder]
    ELSE IF zip.fail_at \in 1..Len(zip.members)
    THEN [raised |-> "OSError", zip_exists |-> TRUE, removed |-> FALSE,
          folder |-> folder \cup
                        {zip.members[i] : i \in 1..(zip.fail_at - 1)}]
    ELSE IF zip.vanished
    THEN [raised |-> NoError, zip_exists |-> FALSE, removed |-> FALSE,
          folder |-> folder \cup Range(zip.members)]
    ELSE IF zip.remove_fails
    THEN [raised |-> "PermissionError", zip_exists |-> TRUE, removed |-> FALSE,
          folder |-> folder \cup Range(zip.members)]
    ELSE [raised |-> NoError, zip_exists |-> FALSE, removed |-> TRUE,
          folder |-> folder \cup Range(zip.members)]

NoUnzip == [raised |-> "not called", zip_exists |-> FALSE, removed |-> FALSE,
            folder |-> {}]

UzIdle == uz = [pc |-> "idle", zip |-> CHOOSE z \in ZipFiles : z.kind = "absent",
                folder |-> {}, result |-> NoUnzip]

UzInit ==
    \E zip \in ZipFiles, folder \in SUBSET MemberNames :
        uz = [pc |-> "call", zip |-> zip, folder |-> folder, result |-> NoUnzip]

Unzip ==
    /\ uz.pc = "call"
    /\ uz' = [uz EXCEPT !.pc = "done", !.result = unzip_file(uz.zip, uz.folder)]
    /\ UNCHANGED not_uz

\* C16: unzip_file deletes the ZIP file only after its contents have been
\* extracted into the target folder; when the file is not a valid ZIP or
\* extraction fails, the error is raised to the caller and the ZIP file is
\* not deleted.
C16_ZipDeletedOnlyAfterExtraction ==
    (uz.pc = "done") =>
        /\ uz.result.removed =>
              /\ Range(uz.zip.members) \subseteq uz.result.folder
              /\ uz.result.raised = NoError
        /\ (\/ uz.zip.kind # "zip"
            \/ uz.zip.open_fails
            \/ uz.zip.fail_at \in 1..Len(uz.zip.members)) =>
              /\ uz.result.raised \notin {NoError, "not called"}
              /\ ~uz.result.removed
              /\ uz.result.zip_exists = (uz.zip.kind # "absent")

C16_Witness ==
    /\ uz.pc = "done"
    /\ uz.zip.kind = "zip"
    /\ Len(uz.zip.members) = 2
    /\ uz.zip.fail_at = 2
    /\ ~uz.zip.open_fails
    /\ uz.result.raised = "OSError"
    /\ uz.result.zip_exists
    /\ uz.result.folder = {uz.zip.members[1]}

---------------------------------------------------------------------------
(* GraphWidget, panning with the mouse: src/src/assets/graph_widget.py     *)

\* The plot area is PlotWidth by PlotHeight pixels, one data unit a pixel;
\* the view is followed while it is at most MaxPan units from its origin.
PlotWidth == 1

PlotHeight == 1

MaxPan == 1

\* The mouse events matplotlib delivers.  Outside the axes inaxes is None
\* and the event carries no data coordinates.
MouseEvents(types) ==
    [type : types, button : {1, 2, 3}, inaxes : BOOLEAN,
     x : 0..PlotWidth, y : 0..PlotHeight]

\* What the widget keeps of the event it handled last.
Handled(event) ==
    [type |-> event.type, button |-> event.button, inaxes |-> event.inaxes]

\* event.xdata, event.ydata: the pixel under the current axis limits
xdata(w, event) == w.xlim[1] + event.x

ydata(w, event) == w.ylim[1] + event.y

\* GraphWidget.__init__
NewGraphWidget ==
    [dragging |-> FALSE, last_set |-> FALSE, last_x |-> 0, last_y |-> 0,
     xlim |-> <<0, PlotWidth>>, ylim |-> <<0, PlotHeight>>,
     event |-> [type |-> "none", button |-> 1, inaxes |-> FALSE]]

GwIdle == gw = NewGraphWidget

\* on_move(event)
on_move_undragged(w, event) ==
    IF event.inaxes
    THEN LET dx == xdata(w, event) - w.last_x
             dy == ydata(w, event) - w.last_y
         IN  [w EXCEPT !.xlim = <<w.xlim[1] - dx, w.xlim[2] - dx>>,
                       !.ylim = <<w.ylim[1] - dy, w.ylim[2] - dy>>,
                       !.last_x = xdata(w, event),
                       !.last_y = ydata(w, event),
                       !.event = Handled(event)]
    ELSE [w EXCEPT !.event = Handled(event)]

on_move(w, event) ==
    IF w.dragging /\ event.inaxes
    THEN LET dx == xdata(w, event) - w.last_x
             dy == ydata(w, event) - w.last_y
         IN  [w EXCEPT !.xlim = <<w.xlim[1] - dx, w.xlim[2] - dx>>,
                       !.ylim = <<w.ylim[1] - dy, w.ylim[2] - dy>>,
                       !.last_x = xdata(w, event),
                       !.last_y = ydata(w, event),
                       !.event = Handled(event)]
    ELSE [w EXCEPT !.event = Handled(event)]

\* on_click(event), the handler of button_press_event
OnClick ==
    \E event \in MouseEvents({"press"}) :
        /\ gw' = IF event.button = 1 /\ event.inaxes
                 THEN [gw EXCEPT !.dragging = TRUE, !.last_set = TRUE,
                                 !.last_x = xdata(gw, event),
                                 !.last_y = ydata(gw, event),
                                 !.event = Handled(event)]
                 ELSE [gw EXCEPT !.event = Handled(event)]
        /\ UNCHANGED not_gw

\* on_release(event), the handler of button_release_event
OnRelease ==
    \E event \in MouseEvents({"release"}) :
        /\ gw' = IF event.button = 1
                 THEN [gw EXCEPT !.dragging = FALSE, !.event = Handled(event)]
                 ELSE [gw EXCEPT !.event = Handled(event)]
        /\ UNCHANGED not_gw

\* on_move(event), the handler of motion_notify_event
OnMove ==
    \E event \in MouseEvents({"move"}) :
        /\ gw' = on_move(gw, event)
        /\ gw'.xlim[1] \in (0 - MaxPan)..MaxPan
        /\ gw'.ylim[1] \in (0 - MaxPan)..MaxPan
        /\ UNCHANGED not_gw

\* C17: mouse movement changes the axis limits only while dragging mode is
\* active; dragging mode is entered only by a left-button press inside the
\* axes and ends at the next left-button release, for any sequence of
\* press, move and release events.
C17_PanOnlyWhileDragging ==
    [][/\ (gw'.xlim # gw.xlim \/ gw'.ylim # gw.ylim) =>
              (gw.dragging /\ gw'.event.type = "move")
       /\ (~gw.dragging /\ gw'.dragging) =>
              /\ gw'.event.type = "press"
              /\ gw'.event.button = 1
              /\ gw'.event.inaxes
       /\ (gw'.event.type = "release" /\ gw'.event.button = 1) => ~gw'.dragging
       /\ (gw.dragging /\ ~gw'.dragging) =>
              (gw'.event.type = "release" /\ gw'.event.button = 1)]_vars

C17_Witness ==
    /\ ~gw.dragging
    /\ gw.last_set
    /\ gw.event.type = "move"
    /\ gw.event.inaxes
    /\ gw.xlim # <<0, PlotWidth>>
    /\ gw.ylim # <<0, PlotHeight>>

---------------------------------------------------------------------------
(* The dashboard with one toggle method: src/src/windows/dashboard_window.py *)

Distinctions == {"gender", "school", "income"}

\* DashboardWindow.__init__; shown is the kind of the bar chart and pie
\* chart on display, "nothing" before the first display; shown_question
\* is the question they were drawn for; pie_filter is the gender of the
\* pie chart on display ("blank" for an empty canvas) and highlighted the
\* filter buttons drawn as active, while the gender view is on display
NewDashboard ==
    [current_graph |-> NoneStr, current_distinction |-> NoneStr,
     fig1 |-> NoneStr, fig2 |-> NoneStr, shown |-> "nothing",
     question |-> "SC1", shown_question |-> NoneStr,
     pie_filter |-> NoneStr, highlighted |-> {},
     event |-> [op |-> "init", graph_type |-> NoneStr]]

DwIdle == dw = NewDashboard

\* What _refresh_graph_interface puts on display for a view: the two charts
\* of the selected question and, for the gender view, the filter buttons
\* of create_gender_filter_buttons
Displayed(w, kind, gender_filter) ==
    [w EXCEPT !.shown = kind,
              !.shown_question = w.question,
              !.pie_filter = IF kind # "gender" THEN NoneStr
                             ELSE IF gender_filter # NoneStr THEN gender_filter
                             ELSE "Male",
              !.highlighted = IF kind = "gender" /\ w.current_distinction = "gender"
                              THEN {"Male"} ELSE {}]

\* show_graph(distinction_by, gender_filter): made1 and made2 tell whether
\* visualize_survey_responses returned a figure for the main and for the
\* secondary chart, or None
show_graph_unvalidated(w, distinction_by, gender_filter, made1, made2) ==
    LET distinction == IF distinction_by # NoneStr THEN distinction_by
                       ELSE w.current_distinction
        kind == IF distinction \in Distinctions THEN distinction ELSE "original"
        made == [w EXCEPT !.fig1 = IF made1 THEN kind ELSE NoneStr,
                          !.fig2 = IF made2 THEN kind ELSE NoneStr]
    IN  Displayed(made, kind, gender_filter)

show_graph(w, distinction_by, gender_filter, made1, made2) ==
    LET distinction == IF distinction_by # NoneStr THEN distinction_by
                       ELSE w.current_distinction
        kind == IF distinction \in Distinctions THEN distinction ELSE "original"
        made == [w EXCEPT !.fig1 = IF made1 THEN kind ELSE NoneStr,
                          !.fig2 = IF made2 THEN kind ELSE NoneStr]
    IN  IF made1 /\ made2 THEN Displayed(made, kind, gender_filter) ELSE made

\* _handle_gender_filter(gender) with update_pie_chart(gender): without
\* live filter buttons the first setStyleSheet raises; a figure that
\* comes back as None is drawn as an empty canvas
handle_gender_filter_no_reset(w, selected, made) ==
    IF w.shown # "gender"
    THEN w
    ELSE [w EXCEPT !.highlighted = w.highlighted \cup {selected},
                   !.pie_filter = IF made THEN selected ELSE "blank",
                   !.fig2 = IF made THEN "gender" ELSE NoneStr]

handle_gender_filter(w, selected, made) ==
    IF w.shown # "gender"
    THEN w
    ELSE [w EXCEPT !.highlighted = {selected},
                   !.pie_filter = IF made THEN selected ELSE "blank",
                   !.fig2 = IF made THEN "gender" ELSE NoneStr]

\* The two assignments that return the recorded view to the original one,
\* in toggle_graph and in reset_graph_to_default
revert_graph_only(w) == [w EXCEPT !.current_graph = "original"]

revert_to_original(w) ==
    [w EXCEPT !.current_graph = "original", !.current_distinction = NoneStr]

\* toggle_graph(graph_type, filters), the slot of the three distinction
\* buttons; the first value of the gender dictionary is 'Female'
ToggleGraph ==
    \E graph_type \in Distinctions, made1 \in BOOLEAN, made2 \in BOOLEAN,
       made3 \in BOOLEAN :
        LET pressed == [dw EXCEPT !.event = [op |-> "toggle",
                                             graph_type |-> graph_type]]
            on      == show_graph([pressed EXCEPT
                                      !.current_graph = graph_type,
                                      !.current_distinction = graph_type],
                                  graph_type,
                                  IF graph_type = "gender" THEN gender[0]
                                  ELSE NoneStr,
                                  made1, made2)
        IN  /\ dw' = IF dw.current_graph = graph_type
                     THEN show_graph(revert_to_original(pressed),
                                     NoneStr, NoneStr, made1, made2)
                     ELSE IF graph_type = "gender"
                     THEN handle_gender_filter(on, "Male", made3)
                     ELSE on
            /\ UNCHANGED not_dw

\* reset_graph_to_default(), the slot of the reset button
ResetGraph ==
    \E made1 \in BOOLEAN, made2 \in BOOLEAN :
        /\ dw' = show_graph(revert_to_original(
                                [dw EXCEPT !.event = [op |-> "reset",
                                                      graph_type |-> NoneStr]]),
                            NoneStr, NoneStr, made1, made2)
        /\ UNCHANGED not_dw

\* The question selector changes: show_graph(None)
SelectQuestion ==
    \E question \in Questions \ {dw.question},
       made1 \in BOOLEAN, made2 \in BOOLEAN :
        /\ dw' = show_graph([dw EXCEPT !.question = question,
                                       !.event = [op |-> "question",
                                                  graph_type |-> NoneStr]],
                            NoneStr, NoneStr, made1, made2)
        /\ UNCHANGED not_dw

\* The Male or the Female filter button is pressed.
FilterGender ==
    \E selected \in {"Male", "Female"}, made \in BOOLEAN :
        /\ dw.shown = "gender"
        /\ dw' = handle_gender_filter(
                    [dw EXCEPT !.event = [op |-> "filter",
                                          graph_type |-> NoneStr]],
                    selected, made)
        /\ UNCHANGED not_dw

C21_ShownIsRecordedView ==
    (dw.shown # "nothing") =>
        /\ dw.shown = IF dw.current_graph \in Distinctions
                      THEN dw.current_graph ELSE "original"
        /\ dw.shown = IF dw.current_distinction \in Distinctions
                      THEN dw.current_distinction ELSE "original"

\* C22: after any sequence of toggle, reset and question-change events,
\* current_distinction is None exactly when current_graph is None or
\* 'original', and otherwise current_distinction equals current_graph.
C22_DistinctionFollowsGraph ==
    /\ (dw.current_distinction = NoneStr) <=>
            (dw.current_graph \in {NoneStr, "original"})
    /\ (dw.current_distinction # NoneStr) =>
            (dw.current_distinction = dw.current_graph)

C22_Witness ==
    /\ dw.event.op = "question"
    /\ dw.current_graph = "income"
    /\ dw.current_distinction = "income"
    /\ dw.shown = "original"

\* C24 as stated: whenever the gender distinction is displayed, exactly one
\* of the Male and Female filter buttons is highlighted as active, and it
\* names the gender whose pie chart is currently shown, after any sequence
\* of toggle, filter-button and question-change events.
C24_HighlightNamesShownPie ==
    (dw.shown = "gender") => (dw.highlighted = {dw.pie_filter})

\* C24, amended: whenever the gender distinction is displayed, exactly one
\* of the Male and Female filter buttons is highlighted as active; it
\* names the gender whose pie chart is currently shown, or, when no pie
\* chart could be generated for the gender last asked for, that gender,
\* the pie chart area then being empty.
C24_HighlightNamesShownPieOrRequest ==
    (dw.shown = "gender") =>
        /\ Cardinality(dw.highlighted) = 1
        /\ dw.highlighted \subseteq {"Male", "Female"}
        /\ dw.pie_filter \in dw.highlighted \cup {"blank"}

C24_Witness ==
    /\ dw.shown = "gender"
    /\ dw.event.op = "filter"
    /\ dw.highlighted = {"Female"}
    /\ dw.pie_filter = "blank"
    /\ dw.shown_question = "TR1"

---------------------------------------------------------------------------
(* The dashboard with one toggle method for each distinction:              *)
(* src/FinalProject/windows/dashboard_window.py                            *)

\* DashboardWindow.__init__; shown_bar and shown_pie are the kinds of the
\* two charts on display, "nothing" before the first display; the
\* ..._question fields name the question a figure was generated for
NewFinalDashboard ==
    [is_graph_displayed |-> FALSE,
     current_graph |-> NoneStr, current_distinction |-> NoneStr,
     fig1 |-> NoneStr, fig2 |-> NoneStr,
     shown_bar |-> "nothing", shown_pie |-> "nothing",
     question |-> "SC1",
     fig1_question |-> NoneStr, fig2_question |-> NoneStr,
     shown_bar_question |-> NoneStr, shown_pie_question |-> NoneStr,
     event |-> [op |-> "init", graph_type |-> NoneStr, made |-> FALSE]]

FdIdle == fd = NewFinalDashboard

\* show_graph(distinction_by): made1 and made2 tell whether question_plot
\* returned a figure or None
show_graph_by(w, distinction_by, made1, made2) ==
    LET distinction == IF distinction_by = NoneStr /\ w.current_distinction # NoneStr
                       THEN w.current_distinction
                       ELSE distinction_by
        fig1 == IF ~made1 THEN NoneStr
                ELSE IF distinction \in Distinctions THEN distinction
                ELSE "original"
        fig2 == IF distinction \in {"school", "income"} THEN w.fig2
                ELSE IF ~made2 THEN NoneStr
                ELSE IF distinction = "gender" THEN "gender"
                ELSE "original"
        fig2_question == IF distinction \in {"school", "income"}
                         THEN w.fig2_question ELSE w.question
        made == [w EXCEPT !.fig1 = fig1, !.fig2 = fig2,
                          !.fig1_question = w.question,
                          !.fig2_question = fig2_question]
    IN  IF fig1 = NoneStr \/ fig2 = NoneStr
        THEN made
        ELSE [made EXCEPT !.shown_bar = fig1, !.shown_pie = fig2,
                          !.shown_bar_question = w.question,
                          !.shown_pie_question = fig2_question]

\* toggle_graph_by_gender(), toggle_graph_by_school() and
\* toggle_graph_by_income()
ToggleGraphBy ==
    \E graph_type \in Distinctions, made1 \in BOOLEAN, made2 \in BOOLEAN :
        LET pressed == [fd EXCEPT !.event = [op |-> "toggle",
                                             graph_type |-> graph_type,
                                             made |-> made1 /\ made2]]
        IN  /\ fd' = IF fd.current_graph = graph_type
                     THEN [show_graph_by(pressed, NoneStr, made1, made2) EXCEPT
                              !.current_graph = "original",
                              !.current_distinction = NoneStr,
                              !.is_graph_displayed = ~fd.is_graph_displayed]
                     ELSE [show_graph_by(pressed, graph_type, made1, made2) EXCEPT
                              !.current_graph = graph_type,
                              !.current_distinction = graph_type,
                              !.is_graph_displayed = ~fd.is_graph_displayed]
            /\ UNCHANGED not_fd

\* reset_graph_to_default()
ResetGraphToDefault ==
    \E made1 \in BOOLEAN, made2 \in BOOLEAN :
        LET pressed == [fd EXCEPT !.event = [op |-> "reset",
                                             graph_type |-> NoneStr,
                                             made |-> made1 /\ made2]]
        IN  /\ fd' = [show_graph_by(pressed, NoneStr, made1, made2) EXCEPT
                          !.current_graph = "original",
                          !.current_distinction = NoneStr,
                          !.is_graph_displayed = ~fd.is_graph_displayed]
            /\ UNCHANGED not_fd

\* The Graphs menu, or the question selector changing to another question:
\* show_graph()
ShowGraph ==
    \E question \in Questions, made1 \in BOOLEAN, made2 \in BOOLEAN :
        /\ fd' = show_graph_by(
                    [fd EXCEPT !.question = question,
                               !.event = [op |-> IF question = fd.question
                                                 THEN "show" ELSE "question",
                                          graph_type |-> NoneStr,
                                          made |-> made1 /\ made2]],
                    NoneStr, made1, made2)
        /\ UNCHANGED not_fd

\* C20: in the dashboard with per-distinction toggle methods, resetting the
\* graph, or toggling off the distinction that is currently active,
\* displays the original graph without any distinction (whenever
\* question_plot returns the figures).
C20_ResetAndToggleOffShowOriginal ==
    [][(/\ fd'.event.made
        /\ \/ fd'.event.op = "reset"
           \/ fd'.event.op = "toggle" /\ fd.current_graph = fd'.event.graph_type) =>
        /\ fd'.shown_bar = "original"
        /\ fd'.shown_pie = "original"]_vars

\* C23: when the selected question changes while a distinction is active,
\* both charts are regenerated for the new question under that same
\* distinction, and current_graph and current_distinction are left
\* unchanged (whenever question_plot returns the figures).
C23_QuestionChangeKeepsDistinction ==
    [][(/\ fd'.event.op = "question"
        /\ fd'.event.made
        /\ fd.current_distinction \in Distinctions) =>
        /\ fd'.current_graph = fd.current_graph
        /\ fd'.current_distinction = fd.current_distinction
        /\ fd'.fig1 = fd.current_distinction
        /\ fd'.fig1_question = fd'.question
        /\ fd'.fig2_question = fd'.question
        /\ fd'.shown_bar_question = fd'.question
        /\ fd'.shown_pie_question = fd'.question]_vars

---------------------------------------------------------------------------
(* run_preprocessing and display_tables:                                   *)
(* src/src/windows/dashboard_window.py                                     *)

MaxPreprocessRuns == 3

\* cleaned_data.csv and processed_data.csv are known by the run that wrote
\* them, 0 for a file that is absent; a table by the file contents it
\* shows, 0 for an empty table.
\* display_tables(): a table is filled from its file when the file exists
display_tables(w) ==
    [w EXCEPT !.table1 = IF w.cleaned # 0 THEN w.cleaned ELSE w.table1,
              !.table2 = IF w.processed # 0 THEN w.processed ELSE w.table2]

\* DashboardWindow.__init__ calls display_tables() once
PpIdle ==
    pp = [pc |-> "idle", run |-> 1, cleaned |-> 0, processed |-> 0,
          table1 |-> 0, table2 |-> 0, exit_code |-> 0,
          message |-> "", raised |-> FALSE]

PpInit ==
    \E cleaned \in {0, 1}, processed \in {0, 1} :
        pp = display_tables(
                [pc |-> "idle", run |-> 1,
                 cleaned |-> cleaned, processed |-> processed,
                 table1 |-> 0, table2 |-> 0, exit_code |-> 0,
                 message |-> "", raised |-> FALSE])

\* run_preprocessing() after subprocess.run(..., check=True) has returned
\* or raised CalledProcessError
refresh_always(w) ==
    display_tables(
        [w EXCEPT !.pc = "idle",
                  !.message = IF w.exit_code = 0
                              THEN "Data preprocessing completed successfully."
                              ELSE "An error occurred while running preprocessing"])

after_subprocess(w) ==
    IF w.exit_code = 0
    THEN display_tables(
            [w EXCEPT !.pc = "idle",
                      !.message = "Data preprocessing completed successfully."])
    ELSE [w EXCEPT !.pc = "idle",
                   !.message = "An error occurred while running preprocessing"]

\* run_preprocessing() up to the start of the subprocess; when the
\* interpreter cannot be started subprocess.run raises FileNotFoundError
RunPreprocessing ==
    \E started \in BOOLEAN :
        /\ pp.pc = "idle"
        /\ pp.run < MaxPreprocessRuns
        /\ pp' = IF started
                 THEN [pp EXCEPT !.pc = "running", !.run = pp.run + 1,
                                 !.message = "", !.raised = FALSE]
                 ELSE [pp EXCEPT !.run = pp.run + 1, !.raised = TRUE,
                                 !.message = "File not found. Please check the path to the script."]
        /\ UNCHANGED not_pp

\* preprocess.py runs to its end: main() writes cleaned_data.csv and then
\* processed_data.csv, and catches its own exceptions, so it also exits
\* with 0 when it wrote nothing; the process may instead die at any point
SubprocessExits ==
    \E exit_code \in {0, 1}, wrote \in {"nothing", "cleaned", "both"} :
        /\ pp.pc = "running"
        /\ pp' = [pp EXCEPT !.pc = "exited", !.exit_code = exit_code,
                            !.cleaned = IF wrote = "nothing" THEN pp.cleaned
                                        ELSE pp.run,
                            !.processed = IF wrote = "both" THEN pp.run
                                          ELSE pp.processed]
        /\ UNCHANGED not_pp

\* the rest of run_preprocessing()
AfterSubprocess ==
    /\ pp.pc = "exited"
    /\ pp' = after_subprocess(pp)
    /\ UNCHANGED not_pp

\* C25: the dashboard refreshes its data tables only after the
\* preprocessing subprocess has finished successfully; when the subprocess
\* fails or cannot be started, the tables are left as they were.
C25_TablesRefreshOnlyAfterSuccess ==
    [][/\ (pp'.table1 # pp.table1 \/ pp'.table2 # pp.table2) =>
              (pp.pc = "exited" /\ pp.exit_code = 0)
       /\ (pp.pc = "exited" /\ pp.exit_code # 0) =>
              (pp'.table1 = pp.table1 /\ pp'.table2 = pp.table2)
       /\ pp'.raised =>
              (pp'.table1 = pp.table1 /\ pp'.table2 = pp.table2)
       /\ (pp.pc = "exited" /\ pp.exit_code = 0) =>
              /\ pp'.cleaned # 0 => pp'.table1 = pp'.cleaned
              /\ pp'.processed # 0 => pp'.table2 = pp'.processed]_vars

C25_Witness ==
    /\ pp.pc = "idle"
    /\ pp.exit_code = 1
    /\ pp.cleaned = 3
    /\ pp.processed = 3
    /\ pp.table1 = 2
    /\ pp.table2 = 2
    /\ pp.message = "An error occurred while running preprocessing"

---------------------------------------------------------------------------
(* GraphWidget, zooming with the scroll wheel:                             *)
(* src/src/assets/graph_widget.py                                          *)

\* Axis ranges are counted in thousandths of a data unit.  min_range is
\* 0.02; the view is followed while no range exceeds ZoomCap.
MinRange == 20

ZoomCap == 3300

InitialRanges == {<<1000, 1000>>, <<30, 1000>>, <<1000, 25>>}

Max2(a, b) == IF a >= b THEN a ELSE b

NewZoom(ranges) ==
    [x0 |-> ranges[1], y0 |-> ranges[2],
     x_range |-> ranges[1], y_range |-> ranges[2],
     event |-> [button |-> "none", inaxes |-> FALSE], refused |-> "none"]

ZsIdle == zs = NewZoom(<<1000, 1000>>)

ZsInit == \E ranges \in InitialRanges : zs = NewZoom(ranges)

\* on_scroll(event).  The new limits are centred on the cursor, so that
\* wherever the cursor is the new range of an axis is its range times the
\* zoom factor: 0.9 for 'up' and 1.1 for anything else.
on_scroll(w, event) ==
    IF ~event.inaxes
    THEN [w EXCEPT !.event = event, !.refused = "none"]
    ELSE LET new_x == IF event.button = "up" THEN (w.x_range * 9) \div 10
                      ELSE (w.x_range * 11) \div 10
             new_y == IF event.button = "up" THEN (w.y_range * 9) \div 10
                      ELSE (w.y_range * 11) \div 10
             max_range == 3 * Max2(w.x_range, w.y_range)
         IN  IF new_x < MinRange \/ new_y < MinRange
             THEN [w EXCEPT !.event = event, !.refused = "in"]
             ELSE IF new_x > max_range \/ new_y > max_range
             THEN [w EXCEPT !.event = event, !.refused = "out"]
             ELSE [w EXCEPT !.event = event, !.refused = "none",
                            !.x_range = new_x, !.y_range = new_y]

OnScroll ==
    \E event \in [button : {"up", "down"}, inaxes : BOOLEAN] :
        /\ zs' = on_scroll(zs, event)
        /\ zs'.x_range <= ZoomCap
        /\ zs'.y_range <= ZoomCap
        /\ UNCHANGED not_zs

\* C26: scroll zooming in GraphWidget is bounded in both directions: after
\* any sequence of scroll events no axis range becomes smaller than 0.02,
\* and repeated zoom-out scrolls reach a limit beyond which a further
\* zoom-out is refused and the view no longer grows.  The limit is taken
\* as the max_range of the initial view, three times its larger range.
C26_ZoomBoundedBothWays ==
    /\ (zs.x0 >= MinRange /\ zs.y0 >= MinRange) =>
            (zs.x_range >= MinRange /\ zs.y_range >= MinRange)
    /\ zs.x_range <= 3 * Max2(zs.x0, zs.y0)
    /\ zs.y_range <= 3 * Max2(zs.x0, zs.y0)

---------------------------------------------------------------------------
(* GraphWidget, annotations: src/src/assets/graph_widget.py                *)

MaxAnnotations == 4

AnnotationTexts == {"", "a", "b"}

\* _annotations is a dict: keys lists its keys in insertion order and
\* dict maps each key to its annotation.  Annotations are numbered in the
\* order in which axis.annotate created them; axes holds those drawn.
NewAnnotated ==
    [clicked |-> FALSE, keys |-> <<>>, dict |-> [t \in {} |-> 0],
     axes |-> {}, created |-> 0,
     event |-> [op |-> "none", text |-> "", ok |-> FALSE]]

AnIdle == an = NewAnnotated

KeySet(w) == {w.keys[i] : i \in 1..Len(w.keys)}

\* self._annotations[text] = annotation: a new key goes to the end, an
\* existing key keeps its place and gets the new value.
dict_setitem(w, text, annotation) ==
    [w EXCEPT !.keys = IF text \in KeySet(w) THEN @ ELSE Append(@, text),
              !.dict = [t \in KeySet(w) \cup {text} |->
                            IF t = text THEN annotation ELSE w.dict[t]]]

add_annotation(w, text, ok) ==
    LET e == [op |-> "add", text |-> text, ok |-> ok]
    IN  IF ok /\ text # "" /\ w.clicked
        THEN LET annotation == w.created + 1
                 v == dict_setitem(w, text, annotation)
             IN  [v EXCEPT !.axes = @ \cup {annotation},
                           !.created = annotation, !.event = e]
        ELSE [w EXCEPT !.event = e]

delete_last_annotation(w) ==
    LET e == [op |-> "delete", text |-> "", ok |-> FALSE]
    IN  IF w.keys # <<>>
        THEN LET last_key == w.keys[Len(w.keys)]
                 annotation == w.dict[last_key]
             IN  [w EXCEPT !.keys = SubSeq(@, 1, Len(@) - 1),
                           !.dict = [t \in KeySet(w) \ {last_key} |-> w.dict[t]],
                           !.axes = @ \ {annotation},
                           !.event = e]
        ELSE [w EXCEPT !.event = e]

\* on_click with the left button inside the axes sets _last_x and _last_y.
AnClick ==
    /\ an' = [an EXCEPT !.clicked = TRUE,
                        !.event = [op |-> "click", text |-> "", ok |-> FALSE]]
    /\ UNCHANGED not_an

AddAnnotation ==
    \E text \in AnnotationTexts, ok \in BOOLEAN :
        /\ an.created < MaxAnnotations
        /\ an' = add_annotation(an, text, ok)
        /\ UNCHANGED not_an

DeleteLastAnnotation ==
    /\ an' = delete_last_annotation(an)
    /\ UNCHANGED not_an

MostRecent(annotations) ==
    IF annotations = {} THEN {}
    ELSE {CHOOSE a \in annotations : \A b \in annotations : b <= a}

\* C27: for any sequence of add and delete operations, including
\* annotations with identical text, delete_last_annotation removes the most
\* recently added annotation that is still present, and does nothing when
\* there is none.
C27_DeleteRemovesMostRecent ==
    [][an'.event.op = "delete" => an'.axes = an.axes \ MostRecent(an.axes)]_vars

---------------------------------------------------------------------------
(* The download script: src/src/assets/download_files.py                   *)

MaxDownloadRuns == 2

MaxWaits == 2

\* A ZIP file of the working directory is named by what it holds: the
\* data set with the expected folder, another archive, or no archive.
ZipKinds == {"dataset", "other", "corrupt"}

NewScript(zips, extracted, renamed) ==
    [pc |-> "start", run |-> 1, browser |-> "none", cwd_zips |-> zips,
     extracted |-> extracted, renamed_exists |-> renamed,
     zip_file |-> NoneStr, waits |-> 0, raised |-> FALSE, message |-> "none"]

DlIdle == dl = NewScript({}, FALSE, FALSE)

DlInit ==
    \E zips \in SUBSET {"other", "corrupt"}, extracted \in BOOLEAN, renamed \in BOOLEAN :
        dl = NewScript(zips, extracted, renamed)

\* driver = setup_browser(); without a driver the script prints and ends.
SetupBrowser ==
    /\ dl.pc = "start"
    /\ \E started \in BOOLEAN :
          dl' = IF started
                THEN [dl EXCEPT !.pc = "input", !.browser = "open"]
                ELSE [dl EXCEPT !.pc = "done",
                                !.message = "The browser could not be started"]
    /\ UNCHANGED not_dl

\* download_file up to input(): driver.get, then the prompt is answered
\* or the page could not be loaded.
AnswerPrompt ==
    /\ dl.pc = "input"
    /\ \E loaded \in BOOLEAN :
          dl' = IF loaded
                THEN [dl EXCEPT !.pc = "download"]
                ELSE [dl EXCEPT !.pc = "finally", !.zip_file = NoneStr,
                                !.message = "File could not be downloaded"]
    /\ UNCHANGED not_dl

\* The rest of download_file: the two waits of at most 20 seconds, the
\* clicks, the sleep and the listing of the working directory.
DownloadFile ==
    /\ dl.pc = "download"
    /\ \E outcome \in {"timeout", "clicked"}, arrived \in BOOLEAN :
          LET zips == IF outcome = "clicked" /\ arrived
                      THEN dl.cwd_zips \cup {"dataset"} ELSE dl.cwd_zips
          IN  IF outcome = "timeout" \/ zips = {}
              THEN dl' = [dl EXCEPT !.pc = "finally", !.zip_file = NoneStr,
                                    !.cwd_zips = IF outcome = "timeout" THEN @ ELSE zips,
                                    !.message = "File could not be downloaded"]
              ELSE \E first \in zips :
                      dl' = [dl EXCEPT !.pc = "unzip", !.zip_file = first,
                                       !.cwd_zips = zips]
    /\ UNCHANGED not_dl

\* unzip_file(zip_file_path, os.getcwd()): every error is raised again and
\* leaves the try block of the script.
UnzipFile ==
    /\ dl.pc = "unzip"
    /\ \E fails \in BOOLEAN :
          dl' = IF dl.zip_file = "corrupt" \/ fails
                THEN [dl EXCEPT !.pc = "finally", !.raised = TRUE]
                ELSE [dl EXCEPT !.pc = "wait",
                                !.cwd_zips = @ \ {dl.zip_file},
                                !.extracted = @ \/ dl.zip_file = "dataset"]
    /\ UNCHANGED not_dl

\* while not os.path.exists(extracted_folder): time.sleep(2)
\* The passes of the loop are counted modulo MaxWaits + 1.
WaitForFolder ==
    /\ dl.pc = "wait"
    /\ dl' = IF dl.extracted THEN [dl EXCEPT !.pc = "rename"]
             ELSE [dl EXCEPT !.waits = (@ + 1) % (MaxWaits + 1)]
    /\ UNCHANGED not_dl

\* rename_folder(extracted_folder, "impulse_buying_data")
RenameFolder ==
    /\ dl.pc = "rename"
    /\ \E fails \in BOOLEAN :
          dl' = IF fails \/ dl.renamed_exists
                THEN [dl EXCEPT !.pc = "finally",
                                !.message = "The folder could not be renamed"]
                ELSE [dl EXCEPT !.pc = "finally", !.extracted = FALSE,
                                !.renamed_exists = TRUE,
                                !.message = "Folder renamed successfully"]
    /\ UNCHANGED not_dl

\* finally: driver.quit()
Quit ==
    /\ dl.pc = "finally"
    /\ dl' = [dl EXCEPT !.pc = "done", !.browser = "closed"]
    /\ UNCHANGED not_dl

\* The script is run again in the same working directory.
RunAgain ==
    /\ dl.pc = "done"
    /\ dl.run < MaxDownloadRuns
    /\ dl' = [dl EXCEPT !.pc = "start", !.run = @ + 1, !.browser = "none",
                        !.zip_file = NoneStr, !.waits = 0, !.raised = FALSE,
                        !.message = "none"]
    /\ UNCHANGED not_dl

\* C28: once the download script has started the browser, the browser is
\* eventually closed on every execution, whether the download, the
\* extraction or the folder renaming succeeds or fails.
C28_BrowserEventuallyClosed ==
    (dl.browser = "open") ~> (dl.browser = "closed")

---------------------------------------------------------------------------
(* Live validation and its timers in the registration window:              *)
(* src/src/assets/utils.py, src/src/windows/registration_window.py         *)

\* timer_interval = 2000 ms, counted in ticks of one second.
TimerInterval == 2

MaxKeystrokes == 3

FieldNames == {"username", "password"}

\* labels[f]: the requirement labels of field f are visible; timer[f]: the
\* QTimer of its validator; idle[f]: the time since the last keystroke in f.
NewValidated ==
    [open |-> TRUE, is_closing |-> FALSE, is_registered |-> FALSE,
     labels |-> [f \in FieldNames |-> FALSE],
     timer |-> [f \in FieldNames |-> [active |-> FALSE, remaining |-> 0]],
     idle |-> [f \in FieldNames |-> 0],
     keys |-> 0, restarts |-> 0,
     event |-> [op |-> "init", field |-> "username"]]

VtIdle == vt = NewValidated

\* _validate_username / _validate_password without timer.start() for a
\* timer that is already running.
validate_field_no_restart(w, f) ==
    LET e == [op |-> "key", field |-> f]
    IN  IF w.is_closing \/ w.is_registered
        THEN [w EXCEPT !.event = e, !.keys = @ + 1]
        ELSE [w EXCEPT !.labels[f] = TRUE,
                       !.timer[f] = IF @.active THEN @
                                    ELSE [active |-> TRUE, remaining |-> TimerInterval],
                       !.idle[f] = 0,
                       !.keys = @ + 1,
                       !.restarts = IF w.timer[f].active THEN @ + 1 ELSE @,
                       !.event = e]

\* _validate_username / _validate_password: show_labels(), the validation
\* of the text, then timer.start(), which restarts a running timer.
validate_field(w, f) ==
    LET e == [op |-> "key", field |-> f]
    IN  IF w.is_closing \/ w.is_registered
        THEN [w EXCEPT !.event = e, !.keys = @ + 1]
        ELSE [w EXCEPT !.labels[f] = TRUE,
                       !.timer[f] = [active |-> TRUE, remaining |-> TimerInterval],
                       !.idle[f] = 0,
                       !.keys = @ + 1,
                       !.restarts = IF w.timer[f].active THEN @ + 1 ELSE @,
                       !.event = e]

\* hide_labels: the slot of the timer's timeout signal.
hide_labels(w, f) ==
    [w EXCEPT !.labels[f] = FALSE, !.timer[f].active = FALSE,
              !.event = [op |-> "timeout", field |-> f]]

\* textChanged of the username or password field.
Keystroke ==
    \E f \in FieldNames :
        /\ vt.open
        /\ vt.keys < MaxKeystrokes
        /\ vt' = validate_field(vt, f)
        /\ UNCHANGED not_vt

\* One second passes; a timer that has run out fires first.
Tick ==
    /\ \E f \in FieldNames : vt.timer[f].active
    /\ \A f \in FieldNames : vt.timer[f].active => vt.timer[f].remaining > 0
    /\ vt' = [vt EXCEPT
                !.timer = [f \in FieldNames |->
                              IF vt.timer[f].active
                              THEN [active |-> TRUE, remaining |-> vt.timer[f].remaining - 1]
                              ELSE vt.timer[f]],
                !.idle = [f \in FieldNames |->
                              IF vt.timer[f].active THEN vt.idle[f] + 1 ELSE vt.idle[f]],
                !.event = [op |-> "tick", field |-> vt.event.field]]
    /\ UNCHANGED not_vt

TimerTimeout ==
    \E f \in FieldNames :
        /\ vt.timer[f].active
        /\ vt.timer[f].remaining = 0
        /\ vt' = hide_labels(vt, f)
        /\ UNCHANGED not_vt

\* _on_register with valid fields and add_user_to_db returning: the flag is
\* set, the fields are cleared (their textChanged handlers return at once),
\* the labels are hidden and the window is closed.  close_event is not the
\* name Qt calls, so the timers keep running.
RegisterSucceeds ==
    /\ vt.open
    /\ ~vt.is_registered
    /\ vt.keys > 0
    /\ vt' = [vt EXCEPT !.is_registered = TRUE,
                        !.labels = [f \in FieldNames |-> FALSE],
                        !.open = FALSE,
                        !.event = [op |-> "register", field |-> vt.event.field]]
    /\ UNCHANGED not_vt

\* The window is closed by the user.
CloseValidated ==
    /\ vt.open
    /\ vt' = [vt EXCEPT !.open = FALSE,
                        !.event = [op |-> "close", field |-> vt.event.field]]
    /\ UNCHANGED not_vt

---------------------------------------------------------------------------
(* Specifications                                                          *)



RoNext == RemoveOutliers

InitOutliers ==
    RoInit /\ EnIdle /\ ChIdle /\ VsIdle /\ UsIdle /\ PlIdle
       /\ RgIdle /\ UzIdle /\ GwIdle
        /\ UvIdle /\ DwIdle /\ FdIdle
       /\ PpIdle /\ ZsIdle /\ AnIdle /\ DlIdle /\ VtIdle

SpecOutliers == InitOutliers /\ [][RoNext]_vars

EnNext == CalculateEntropy

InitEntropy ==
    EnInit /\ RoIdle /\ ChIdle /\ VsIdle /\ UsIdle /\ PlIdle
       /\ RgIdle /\ UzIdle /\ GwIdle
        /\ UvIdle /\ DwIdle /\ FdIdle
       /\ PpIdle /\ ZsIdle /\ AnIdle /\ DlIdle /\ VtIdle

SpecEntropy == InitEntropy /\ [][EnNext]_vars

ChNext ==
    \/ BarChartGeneral
    \/ BarChartByGender
    \/ BarChartBySchool
    \/ BarChartByIncome
    \/ PieChartGeneral
    \/ PieChartByGender
    \/ PieChartBySchool
    \/ PieChartByIncome

InitCharts ==
    ChInit /\ RoIdle /\ EnIdle /\ VsIdle /\ UsIdle /\ PlIdle
       /\ RgIdle /\ UzIdle /\ GwIdle
        /\ UvIdle /\ DwIdle /\ FdIdle
       /\ PpIdle /\ ZsIdle /\ AnIdle /\ DlIdle /\ VtIdle

SpecCharts == InitCharts /\ [][ChNext]_vars

VsNext == Visualize

InitDispatch ==
    VsInit /\ RoIdle /\ EnIdle /\ ChIdle /\ UsIdle /\ PlIdle
       /\ RgIdle /\ UzIdle /\ GwIdle
        /\ UvIdle /\ DwIdle /\ FdIdle
       /\ PpIdle /\ ZsIdle /\ AnIdle /\ DlIdle /\ VtIdle

SpecDispatch == InitDispatch /\ [][VsNext]_vars

UsNext ==
    \/ AddUser
    \/ Login

InitUsers ==
    UsInit /\ RoIdle /\ EnIdle /\ ChIdle /\ VsIdle /\ PlIdle
       /\ RgIdle /\ UzIdle /\ GwIdle
        /\ UvIdle /\ DwIdle /\ FdIdle
       /\ PpIdle /\ ZsIdle /\ AnIdle /\ DlIdle /\ VtIdle

SpecUsers == InitUsers /\ [][UsNext]_vars

PlNext == Main

InitPipeline ==
    PlInit /\ RoIdle /\ EnIdle /\ ChIdle /\ VsIdle /\ UsIdle
       /\ RgIdle /\ UzIdle /\ GwIdle
        /\ UvIdle /\ DwIdle /\ FdIdle
       /\ PpIdle /\ ZsIdle /\ AnIdle /\ DlIdle /\ VtIdle

SpecPipeline == InitPipeline /\ [][PlNext]_vars

LdNext == LoadUsers

InitLoad ==
    LdInit /\ RoIdle /\ EnIdle /\ ChIdle /\ VsIdle /\ PlIdle
       /\ RgIdle /\ UzIdle /\ GwIdle
        /\ UvIdle /\ DwIdle /\ FdIdle
       /\ PpIdle /\ ZsIdle /\ AnIdle /\ DlIdle /\ VtIdle

SpecLoad == InitLoad /\ [][LdNext]_vars

UvNext == ValidateUsername

InitValidator ==
    UvInit /\ RoIdle /\ EnIdle /\ ChIdle /\ VsIdle /\ UsIdle /\ PlIdle
       /\ RgIdle /\ UzIdle /\ GwIdle /\ DwIdle /\ FdIdle
       /\ PpIdle /\ ZsIdle /\ AnIdle /\ DlIdle /\ VtIdle

SpecValidator == InitValidator /\ [][UvNext]_vars

RgNext ==
    \/ TypeUsername
    \/ TypeEmail
    \/ TypePassword
    \/ TimerFires
    \/ CloseWindow
    \/ Reopen
    \/ Register

InitRegistration ==
    RgInit /\ RoIdle /\ EnIdle /\ ChIdle /\ VsIdle /\ UsIdle /\ PlIdle
       /\ UzIdle /\ GwIdle /\ UvIdle /\ DwIdle /\ FdIdle
       /\ PpIdle /\ ZsIdle /\ AnIdle /\ DlIdle /\ VtIdle

SpecRegistration == InitRegistration /\ [][RgNext]_vars

UzNext == Unzip

InitUnzip ==
    UzInit /\ RoIdle /\ EnIdle /\ ChIdle /\ VsIdle /\ UsIdle /\ PlIdle
       /\ RgIdle /\ GwIdle /\ UvIdle /\ DwIdle /\ FdIdle
       /\ PpIdle /\ ZsIdle /\ AnIdle /\ DlIdle /\ VtIdle

SpecUnzip == InitUnzip /\ [][UzNext]_vars

GwNext == OnClick \/ OnRelease \/ OnMove

InitGraphWidget ==
    GwIdle /\ RoIdle /\ EnIdle /\ ChIdle /\ VsIdle /\ UsIdle /\ PlIdle
       /\ RgIdle /\ UzIdle /\ UvIdle /\ DwIdle /\ FdIdle
       /\ PpIdle /\ ZsIdle /\ AnIdle /\ DlIdle /\ VtIdle

SpecGraphWidget == InitGraphWidget /\ [][GwNext]_vars

DwNext == ToggleGraph \/ ResetGraph \/ SelectQuestion \/ FilterGender

InitDashboard ==
    DwIdle /\ RoIdle /\ EnIdle /\ ChIdle /\ VsIdle /\ UsIdle /\ PlIdle
       /\ RgIdle /\ UzIdle /\ GwIdle /\ UvIdle /\ FdIdle
       /\ PpIdle /\ ZsIdle /\ AnIdle /\ DlIdle /\ VtIdle

SpecDashboard == InitDashboard /\ [][DwNext]_vars

FdNext == ToggleGraphBy \/ ResetGraphToDefault \/ ShowGraph

InitFinalDashboard ==
    FdIdle /\ RoIdle /\ EnIdle /\ ChIdle /\ VsIdle /\ UsIdle /\ PlIdle
       /\ RgIdle /\ UzIdle /\ GwIdle /\ UvIdle /\ DwIdle
       /\ PpIdle /\ ZsIdle /\ AnIdle /\ DlIdle /\ VtIdle

SpecFinalDashboard == InitFinalDashboard /\ [][FdNext]_vars

PpNext == RunPreprocessing \/ SubprocessExits \/ AfterSubprocess

InitPreprocessing ==
    PpInit /\ RoIdle /\ EnIdle /\ ChIdle /\ VsIdle /\ UsIdle /\ PlIdle
       /\ RgIdle /\ UzIdle /\ GwIdle /\ UvIdle /\ DwIdle /\ FdIdle
       /\ ZsIdle /\ AnIdle /\ DlIdle /\ VtIdle

SpecPreprocessing == InitPreprocessing /\ [][PpNext]_vars

ZsNext == OnScroll

InitZoom ==
    ZsInit /\ RoIdle /\ EnIdle /\ ChIdle /\ VsIdle /\ UsIdle /\ PlIdle
       /\ RgIdle /\ UzIdle /\ GwIdle /\ UvIdle /\ DwIdle /\ FdIdle
       /\ PpIdle /\ AnIdle /\ DlIdle /\ VtIdle

SpecZoom == InitZoom /\ [][ZsNext]_vars

AnNext == AnClick \/ AddAnnotation \/ DeleteLastAnnotation

InitAnnotations ==
    AnIdle /\ RoIdle /\ EnIdle /\ ChIdle /\ VsIdle /\ UsIdle /\ PlIdle
       /\ RgIdle /\ UzIdle /\ GwIdle /\ UvIdle /\ DwIdle /\ FdIdle
       /\ PpIdle /\ ZsIdle /\ DlIdle /\ VtIdle

SpecAnnotations == InitAnnotations /\ [][AnNext]_vars

DlNext ==
    \/ SetupBrowser
    \/ AnswerPrompt
    \/ DownloadFile
    \/ UnzipFile
    \/ WaitForFolder
    \/ RenameFolder
    \/ Quit
    \/ RunAgain

InitDownload ==
    DlInit /\ RoIdle /\ EnIdle /\ ChIdle /\ VsIdle /\ UsIdle /\ PlIdle
       /\ RgIdle /\ UzIdle /\ GwIdle /\ UvIdle /\ DwIdle /\ FdIdle
       /\ PpIdle /\ ZsIdle /\ AnIdle /\ VtIdle

SpecDownload == InitDownload /\ [][DlNext]_vars

\* The script keeps running: every statement that can be executed is
\* executed, and the prompt of download_file is answered.
FairDownload ==
    /\ SpecDownload
    /\ WF_vars(SetupBrowser)
    /\ WF_vars(AnswerPrompt)
    /\ WF_vars(DownloadFile)
    /\ WF_vars(UnzipFile)
    /\ WF_vars(WaitForFolder)
    /\ WF_vars(RenameFolder)
    /\ WF_vars(Quit)

VtNext ==
    \/ Keystroke
    \/ Tick
    \/ TimerTimeout
    \/ RegisterSucceeds
    \/ CloseValidated

InitValidation ==
    VtIdle /\ RoIdle /\ EnIdle /\ ChIdle /\ VsIdle /\ UsIdle /\ PlIdle
       /\ RgIdle /\ UzIdle /\ GwIdle /\ UvIdle /\ DwIdle /\ FdIdle
       /\ PpIdle /\ ZsIdle /\ AnIdle /\ DlIdle

SpecValidation == InitValidation /\ [][VtNext]_vars

\* The event loop runs: time passes and a timer that has run out fires.
FairValidation ==
    /\ SpecValidation
    /\ WF_vars(Tick)
    /\ WF_vars(TimerTimeout)

===========================================================================
